---- MODULE Spec2Model ----
(***************************************************************************)
(* lineards: a generic linear data structure (LINEAR_DS) with two storage  *)
(* strategies, a circular buffer (LDS_VECTOR) and a singly linked list     *)
(* (LDS_LINKED_LIST), and the single iterator embedded in each structure.  *)
(* The model follows src/src/lineards.c function by function.  An element  *)
(* of data_size bytes is one opaque value of Val; memcpy/memcmp on an      *)
(* element are assignment and equality of that value.                      *)
(***************************************************************************)
EXTENDS Integers, Sequences, FiniteSets, TLC

(* ------------------------------ bounds -------------------------------- *)

\* Largest capacity the vector grows to.
MaxCap == 4
\* Number of list nodes the heap holds.
MaxNodes == 3
\* Elements are the values 1..MaxVal.
MaxVal == 2

(* ------------------------- program constants -------------------------- *)

LDS_FAIL == 0
LDS_SUCCESS == 1
LDS_POS_ERR == 2
LDS_NULL == 3
LDS_VECTOR == 1
LDS_LINKED_LIST == 2

\* The NULL node pointer; the nodes themselves are 1..MaxNodes.
NULL == 0
\* Content of a slot or output variable that no memcpy has written yet.
UNINIT == 0
\* sizeof(int), the data_size the test driver and the samples construct with.
ElemSize == 4
\* size_t arithmetic is modulo SIZE_MOD (a narrow width: the model only needs
\* 0 - 1 to wrap to the largest value, as it does for the 64-bit size_t).
SIZE_MOD == 2 ^ 16

Val == 1 .. MaxVal
Nodes == 1 .. MaxNodes
Positions == 0 .. (MaxCap + 1)
\* The initial_capacity values lds_new_vector is called with: 0, from which
\* every growth step 0 -> 1 -> 2 -> 4 happens, and an odd capacity.
InitCaps == {0, 3}
\* Outcome of the allocator for one call: every request is served, the first
\* request fails, or the second request fails.
Mem == {"ok", "fail_first", "fail_second"}
\* The values explored for a size_t field that is read before it is assigned.
Indeterminate == {0, MaxCap}

(* ----------------------------- memory --------------------------------- *)

\* memmove(vec + dst, vec + src, n) in units of one element.
memmove(vec, dst, src, n) ==
    [i \in DOMAIN vec |->
        IF i >= dst /\ i < dst + n THEN vec[src + (i - dst)] ELSE vec[i]]

\* Whether the n elements starting at slot off lie inside a buffer of cap slots.
Fits(cap, off, n) == n = 0 \/ (off >= 0 /\ n > 0 /\ off + n <= cap)

\* A byte-wise read of a slot: an uninitialised slot yields the indeterminate
\* value u chosen by the caller of the operation.
Rd(x, u) == IF x = UNINIT THEN u ELSE x

\* The node record of a released or never allocated node.
FreeNode == [alloc |-> FALSE, data |-> UNINIT, next |-> NULL]

\* Result of one call: the structure, the node heap, the return code, the value
\* stored through the output pointer (UNINIT: nothing stored) and whether the
\* call ran into undefined behaviour (division by zero, NULL dereference,
\* access outside the buffer), after which nothing is known of the program.
Ok(d, n, r, o) == [ds |-> d, nodes |-> n, r |-> r, out |-> o, fault |-> FALSE]
Crash(d, n) == [ds |-> d, nodes |-> n, r |-> LDS_FAIL, out |-> UNINIT, fault |-> TRUE]

(* --------------------------- constructors ----------------------------- *)

lds_new_vector(initial_capacity, data_size) ==
    [type |-> LDS_VECTOR,
     vector |-> [i \in 0 .. initial_capacity - 1 |-> UNINIT],
     head |-> 0, tail |-> 0,
     first |-> NULL, last |-> NULL,
     size |-> 0, capacity |-> initial_capacity, data_size |-> data_size,
     position |-> 0, current |-> NULL, previous |-> NULL]

\* lds_new_list never assigns capacity: junk is whatever malloc left there.
lds_new_list(data_size, junk) ==
    [type |-> LDS_LINKED_LIST,
     vector |-> [i \in 0 .. -1 |-> UNINIT],
     head |-> 0, tail |-> 0,
     first |-> NULL, last |-> NULL,
     size |-> 0, capacity |-> junk, data_size |-> data_size,
     position |-> 0, current |-> NULL, previous |-> NULL]

(* ------------------------ size_t arithmetic --------------------------- *)

Inc(x) == (x + 1) % SIZE_MOD
Dec(x) == (x - 1 + SIZE_MOD) % SIZE_MOD

\* (ds->storage.head + position) % ds->capacity, the physical slot of a
\* logical position; only evaluated when capacity > 0.
Index(d, position) == ((d.head + position) % SIZE_MOD) % d.capacity

(* ------------------- vector (circular buffer) ------------------------- *)

\* A growth by one slot at a time.
NewCapacity_by_one(d) == d.capacity + 1

\* size_t new_capacity = ds->capacity > 0 ? ds->capacity * 2 : 1;
NewCapacity(d) == IF d.capacity > 0 THEN d.capacity * 2 ELSE 1

\* The growth step with the test head > tail in place of head >= tail: a
\* full buffer, where head = tail, is then taken for a contiguous one.
grow_vector_strict(d) ==
    LET new_capacity == NewCapacity(d)
        new_vector == [i \in 0 .. new_capacity - 1 |->
                          IF i < d.capacity THEN d.vector[i] ELSE UNINIT]
    IN  IF d.head > d.tail
        THEN [d EXCEPT !.vector = memmove(new_vector, d.capacity, 0, d.tail),
                       !.tail = d.capacity + d.tail,
                       !.capacity = new_capacity]
        ELSE [d EXCEPT !.vector = new_vector, !.capacity = new_capacity]

\* The growth step of insert_element_in_vector once realloc has succeeded.
grow_vector(d) ==
    LET new_capacity == NewCapacity(d)
        new_vector == [i \in 0 .. new_capacity - 1 |->
                          IF i < d.capacity THEN d.vector[i] ELSE UNINIT]
    IN  IF d.head >= d.tail
        THEN [d EXCEPT !.vector = memmove(new_vector, d.capacity, 0, d.tail),
                       !.tail = d.capacity + d.tail,
                       !.capacity = new_capacity]
        ELSE [d EXCEPT !.vector = new_vector, !.capacity = new_capacity]

\* The placement with the wrapped branch leaving out the move of the last
\* slot of the buffer to slot 0.
place_in_vector_no_carry(g, position, value) ==
    IF position = g.size
    THEN [g EXCEPT !.vector = [g.vector EXCEPT ![g.tail] = value],
                   !.tail = (g.tail + 1) % g.capacity,
                   !.size = Inc(g.size)]
    ELSE IF position = 0
    THEN LET h == (g.head - 1 + g.capacity) % g.capacity
         IN  [g EXCEPT !.head = h,
                       !.vector = [g.vector EXCEPT ![h] = value],
                       !.size = Inc(g.size)]
    ELSE LET index == Index(g, position)
             tail == g.tail
             moved ==
                 IF tail > index
                 THEN memmove(g.vector, index + 1, index, tail - index)
                 ELSE memmove(memmove(g.vector, 1, 0, tail),
                              index + 1, index, g.capacity - index - 1)
         IN  [g EXCEPT !.vector = [moved EXCEPT ![index] = value],
                       !.tail = (g.tail + 1) % g.capacity,
                       !.size = Inc(g.size)]

\* The placement whose wrapped interior branch makes room on the side of the
\* head: the elements before the position move one slot down and the head
\* retreats.
place_in_vector_head_side(g, position, value) ==
    IF position = g.size
    THEN [g EXCEPT !.vector = [g.vector EXCEPT ![g.tail] = value],
                   !.tail = (g.tail + 1) % g.capacity,
                   !.size = Inc(g.size)]
    ELSE IF position = 0
    THEN LET h == (g.head - 1 + g.capacity) % g.capacity
         IN  [g EXCEPT !.head = h,
                       !.vector = [g.vector EXCEPT ![h] = value],
                       !.size = Inc(g.size)]
    ELSE LET index == Index(g, position)
             tail == g.tail
         IN  IF tail > index
             THEN [g EXCEPT !.vector =
                               [memmove(g.vector, index + 1, index, tail - index)
                                   EXCEPT ![index] = value],
                            !.tail = (g.tail + 1) % g.capacity,
                            !.size = Inc(g.size)]
             ELSE [g EXCEPT !.vector =
                               [memmove(g.vector, g.head - 1, g.head, position)
                                   EXCEPT ![index - 1] = value],
                            !.head = g.head - 1,
                            !.size = Inc(g.size)]

\* The three placement branches of insert_element_in_vector, on a store with
\* a spare slot.
place_in_vector(g, position, value) ==
    IF position = g.size
    THEN [g EXCEPT !.vector = [g.vector EXCEPT ![g.tail] = value],
                   !.tail = (g.tail + 1) % g.capacity,
                   !.size = Inc(g.size)]
    ELSE IF position = 0
    THEN LET h == (g.head - 1 + g.capacity) % g.capacity
         IN  [g EXCEPT !.head = h,
                       !.vector = [g.vector EXCEPT ![h] = value],
                       !.size = Inc(g.size)]
    ELSE LET index == Index(g, position)
             tail == g.tail
             moved ==
                 IF tail > index
                 THEN memmove(g.vector, index + 1, index, tail - index)
                 ELSE memmove(
                          memmove(memmove(g.vector, 1, 0, tail),
                                  0, g.capacity - 1, 1),
                          index + 1, index, g.capacity - index - 1)
         IN  [g EXCEPT !.vector = [moved EXCEPT ![index] = value],
                       !.tail = (g.tail + 1) % g.capacity,
                       !.size = Inc(g.size)]

\* Whether a placement reads or writes outside the buffer.
place_out_of_buffer(g, position) ==
    IF position = g.size THEN ~Fits(g.capacity, g.tail, 1)
    ELSE IF position = 0 THEN FALSE
    ELSE LET index == Index(g, position)
             tail == g.tail
         IN  IF tail > index
             THEN ~Fits(g.capacity, index + 1, tail - index)
             ELSE \/ ~Fits(g.capacity, 1, tail)
                  \/ ~Fits(g.capacity, index + 1, g.capacity - index - 1)

\* insert_element_in_vector with the capacity assigned before realloc is tested.
insert_element_in_vector_early(d, n, position, value, mem) ==
    IF d.size = d.capacity /\ mem = "fail_first"
    THEN Ok([d EXCEPT !.capacity = NewCapacity(d)], n, LDS_FAIL, UNINIT)
    ELSE LET g == IF d.size = d.capacity THEN grow_vector(d) ELSE d
         IN  IF g.capacity = 0 THEN Crash(d, n)
             ELSE IF place_out_of_buffer(g, position) THEN Crash(g, n)
             ELSE Ok(place_in_vector(g, position, value), n, LDS_SUCCESS, UNINIT)

insert_element_in_vector(d, n, position, value, mem) ==
    IF d.size = d.capacity /\ mem = "fail_first"
    THEN Ok(d, n, LDS_FAIL, UNINIT)
    ELSE LET g == IF d.size = d.capacity THEN grow_vector(d) ELSE d
         IN  IF g.capacity = 0 THEN Crash(d, n)
             ELSE IF place_out_of_buffer(g, position) THEN Crash(g, n)
             ELSE Ok(place_in_vector(g, position, value), n, LDS_SUCCESS, UNINIT)

\* The removal with the interior branches moving no element.
take_from_vector_no_shift(d, position) ==
    IF position = Dec(d.size)
    THEN [d EXCEPT !.tail = (d.tail - 1 + d.capacity) % d.capacity,
                   !.size = Dec(d.size)]
    ELSE IF position = 0
    THEN [d EXCEPT !.head = (d.head + 1) % d.capacity, !.size = Dec(d.size)]
    ELSE LET index == Index(d, position)
             tail == d.tail
         IN  IF tail > index
             THEN [d EXCEPT !.tail = (d.tail - 1 + d.capacity) % d.capacity,
                            !.size = Dec(d.size)]
             ELSE [d EXCEPT !.head = (d.head + 1) % d.capacity,
                            !.size = Dec(d.size)]

\* The removal whose interior branches both give up the slot before the tail.
take_from_vector_tail_side(d, position) ==
    IF position = Dec(d.size)
    THEN [d EXCEPT !.tail = (d.tail - 1 + d.capacity) % d.capacity,
                   !.size = Dec(d.size)]
    ELSE IF position = 0
    THEN [d EXCEPT !.head = (d.head + 1) % d.capacity, !.size = Dec(d.size)]
    ELSE LET index == Index(d, position)
             tail == d.tail
         IN  IF tail > index
             THEN [d EXCEPT !.vector = memmove(d.vector, index, index + 1,
                                               tail - index - 1),
                            !.tail = (d.tail - 1 + d.capacity) % d.capacity,
                            !.size = Dec(d.size)]
             ELSE [d EXCEPT !.tail = (d.tail - 1 + d.capacity) % d.capacity,
                            !.size = Dec(d.size)]

\* The head/tail/shift branches of remove_element_from_vector.
take_from_vector(d, position) ==
    IF position = Dec(d.size)
    THEN [d EXCEPT !.tail = (d.tail - 1 + d.capacity) % d.capacity,
                   !.size = Dec(d.size)]
    ELSE IF position = 0
    THEN [d EXCEPT !.head = (d.head + 1) % d.capacity, !.size = Dec(d.size)]
    ELSE LET index == Index(d, position)
             tail == d.tail
         IN  IF tail > index
             THEN [d EXCEPT !.vector = memmove(d.vector, index, index + 1,
                                               tail - index - 1),
                            !.tail = (d.tail - 1 + d.capacity) % d.capacity,
                            !.size = Dec(d.size)]
             ELSE [d EXCEPT !.vector = memmove(d.vector, d.head + 1, d.head,
                                               position),
                            !.head = (d.head + 1) % d.capacity,
                            !.size = Dec(d.size)]

take_out_of_buffer(d, position) ==
    IF position = Dec(d.size) \/ position = 0 THEN FALSE
    ELSE LET index == Index(d, position)
             tail == d.tail
         IN  IF tail > index
             THEN ~Fits(d.capacity, index, tail - index - 1)
             ELSE ~Fits(d.capacity, d.head + 1, position)

\* remove_element_from_vector that pulls a cursor standing beyond the new
\* size back to it.
remove_element_from_vector_clamped(d, n, position, out_null, u) ==
    IF d.capacity = 0 THEN Crash(d, n)
    ELSE IF take_out_of_buffer(d, position) THEN Crash(d, n)
    ELSE LET e == take_from_vector(d, position)
         IN  Ok([e EXCEPT !.position = IF e.position > e.size THEN e.size
                                       ELSE e.position],
                n, LDS_SUCCESS,
                IF out_null THEN UNINIT ELSE Rd(d.vector[Index(d, position)], u))

remove_element_from_vector(d, n, position, out_null, u) ==
    IF d.capacity = 0 THEN Crash(d, n)
    ELSE IF take_out_of_buffer(d, position) THEN Crash(d, n)
    ELSE Ok(take_from_vector(d, position), n, LDS_SUCCESS,
            IF out_null THEN UNINIT ELSE Rd(d.vector[Index(d, position)], u))

get_element_from_vector(d, n, position, u) ==
    IF d.capacity = 0 THEN Crash(d, n)
    ELSE Ok(d, n, LDS_SUCCESS, Rd(d.vector[Index(d, position)], u))

\* set_element_in_vector without the memcmp test: it always stores.
set_element_in_vector_always(d, n, position, value, u) ==
    IF d.capacity = 0 THEN Crash(d, n)
    ELSE Ok([d EXCEPT !.vector = [d.vector EXCEPT ![Index(d, position)] = value]],
            n, LDS_SUCCESS, UNINIT)

\* set_element_in_vector that takes the logical position for the slot.
set_element_in_vector_unmapped(d, n, position, value, u) ==
    IF d.capacity = 0 THEN Crash(d, n)
    ELSE IF Rd(d.vector[position], u) = value
    THEN Ok(d, n, LDS_FAIL, UNINIT)
    ELSE Ok([d EXCEPT !.vector = [d.vector EXCEPT ![position] = value]],
            n, LDS_SUCCESS, UNINIT)

set_element_in_vector(d, n, position, value, u) ==
    IF d.capacity = 0 THEN Crash(d, n)
    ELSE IF Rd(d.vector[Index(d, position)], u) = value
    THEN Ok(d, n, LDS_FAIL, UNINIT)
    ELSE Ok([d EXCEPT !.vector = [d.vector EXCEPT ![Index(d, position)] = value]],
            n, LDS_SUCCESS, UNINIT)

(* --------------------------- linked list ------------------------------ *)

\* Whether p may be dereferenced: it is not NULL and has not been released.
Live(n, p) == p # NULL /\ n[p].alloc

HasFreeNode(n) == \E x \in Nodes : ~n[x].alloc

\* The node malloc hands out: the lowest address not in use.
NewNode(n) ==
    CHOOSE x \in Nodes : ~n[x].alloc /\ \A y \in Nodes : y < x => n[y].alloc

\* The list insertion without the assignment it->previous->next = new_node.
it_add_in_list_unlinked(d, n, value, mem) ==
    IF mem # "ok" \/ ~HasFreeNode(n) THEN Ok(d, n, LDS_FAIL, UNINIT)
    ELSE IF d.previous # NULL /\ ~Live(n, d.previous) THEN Crash(d, n)
    ELSE LET new_node == NewNode(n)
             n1 == [n EXCEPT ![new_node] =
                        [alloc |-> TRUE, data |-> value, next |-> d.current]]
         IN  Ok([d EXCEPT !.current = new_node,
                          !.first = IF d.position = 0 THEN new_node ELSE d.first,
                          !.last = IF d.position = d.size THEN new_node ELSE d.last,
                          !.size = Inc(d.size)],
                n1, LDS_SUCCESS, UNINIT)

it_add_in_list(d, n, value, mem) ==
    IF mem # "ok" \/ ~HasFreeNode(n) THEN Ok(d, n, LDS_FAIL, UNINIT)
    ELSE IF d.previous # NULL /\ ~Live(n, d.previous) THEN Crash(d, n)
    ELSE LET new_node == NewNode(n)
             n1 == [n EXCEPT ![new_node] =
                        [alloc |-> TRUE, data |-> value, next |-> d.current]]
             n2 == IF d.previous # NULL
                   THEN [n1 EXCEPT ![d.previous].next = new_node]
                   ELSE n1
         IN  Ok([d EXCEPT !.current = new_node,
                          !.first = IF d.position = 0 THEN new_node ELSE d.first,
                          !.last = IF d.position = d.size THEN new_node ELSE d.last,
                          !.size = Inc(d.size)],
                n2, LDS_SUCCESS, UNINIT)

\* The list step that leaves it->previous where it is.
it_next_in_list_keep_previous(d, n) ==
    IF ~Live(n, d.current) THEN Crash([d EXCEPT !.position = Inc(d.position)], n)
    ELSE Ok([d EXCEPT !.position = Inc(d.position),
                      !.current = n[d.current].next],
            n, LDS_SUCCESS, UNINIT)

it_next_in_list(d, n) ==
    IF ~Live(n, d.current) THEN Crash([d EXCEPT !.position = Inc(d.position)], n)
    ELSE Ok([d EXCEPT !.position = Inc(d.position),
                      !.previous = d.current,
                      !.current = n[d.current].next],
            n, LDS_SUCCESS, UNINIT)

it_get_from_list(d, n) ==
    IF d.position >= d.size THEN Ok(d, n, LDS_POS_ERR, UNINIT)
    ELSE IF ~Live(n, d.current) THEN Crash(d, n)
    ELSE Ok(d, n, LDS_SUCCESS, n[d.current].data)

\* The list removal without free(removed->data) and free(removed).
it_remove_from_list_leaking(d, n, out_null) ==
    IF d.current = NULL THEN Ok(d, n, LDS_POS_ERR, UNINIT)
    ELSE IF ~Live(n, d.current) THEN Crash(d, n)
    ELSE IF d.previous # NULL /\ ~Live(n, d.previous) THEN Crash(d, n)
    ELSE LET removed == d.current
             after == n[removed].next
             n1 == IF d.previous # NULL
                   THEN [n EXCEPT ![d.previous].next = after]
                   ELSE n
         IN  Ok([d EXCEPT !.current = after,
                          !.first = IF d.first = removed THEN after ELSE d.first,
                          !.last = IF d.last = removed THEN d.previous ELSE d.last,
                          !.size = Dec(d.size)],
                n1, LDS_SUCCESS,
                IF out_null THEN UNINIT ELSE n[removed].data)

\* The list removal without the update of ds->storage.list.last.
it_remove_from_list_keep_last(d, n, out_null) ==
    IF d.current = NULL THEN Ok(d, n, LDS_POS_ERR, UNINIT)
    ELSE IF ~Live(n, d.current) THEN Crash(d, n)
    ELSE IF d.previous # NULL /\ ~Live(n, d.previous) THEN Crash(d, n)
    ELSE LET removed == d.current
             after == n[removed].next
             n1 == IF d.previous # NULL
                   THEN [n EXCEPT ![d.previous].next = after]
                   ELSE n
         IN  Ok([d EXCEPT !.current = after,
                          !.first = IF d.first = removed THEN after ELSE d.first,
                          !.size = Dec(d.size)],
                [n1 EXCEPT ![removed] = FreeNode],
                LDS_SUCCESS,
                IF out_null THEN UNINIT ELSE n[removed].data)

\* The list removal without the assignment it->current = it->current->next.
it_remove_from_list_no_advance(d, n, out_null) ==
    IF d.current = NULL THEN Ok(d, n, LDS_POS_ERR, UNINIT)
    ELSE IF ~Live(n, d.current) THEN Crash(d, n)
    ELSE IF d.previous # NULL /\ ~Live(n, d.previous) THEN Crash(d, n)
    ELSE LET removed == d.current
             after == n[removed].next
             n1 == IF d.previous # NULL
                   THEN [n EXCEPT ![d.previous].next = after]
                   ELSE n
         IN  Ok([d EXCEPT !.first = IF d.first = removed THEN after ELSE d.first,
                          !.last = IF d.last = removed THEN d.previous ELSE d.last,
                          !.size = Dec(d.size)],
                [n1 EXCEPT ![removed] = FreeNode],
                LDS_SUCCESS,
                IF out_null THEN UNINIT ELSE n[removed].data)

it_remove_from_list(d, n, out_null) ==
    IF d.current = NULL THEN Ok(d, n, LDS_POS_ERR, UNINIT)
    ELSE IF ~Live(n, d.current) THEN Crash(d, n)
    ELSE IF d.previous # NULL /\ ~Live(n, d.previous) THEN Crash(d, n)
    ELSE LET removed == d.current
             after == n[removed].next
             n1 == IF d.previous # NULL
                   THEN [n EXCEPT ![d.previous].next = after]
                   ELSE n
         IN  Ok([d EXCEPT !.current = after,
                          !.first = IF d.first = removed THEN after ELSE d.first,
                          !.last = IF d.last = removed THEN d.previous ELSE d.last,
                          !.size = Dec(d.size)],
                [n1 EXCEPT ![removed] = FreeNode],
                LDS_SUCCESS,
                IF out_null THEN UNINIT ELSE n[removed].data)

\* The list reset that leaves it->current where it is.
it_reset_in_list_stale(d, n) ==
    Ok([d EXCEPT !.position = 0, !.previous = NULL], n, LDS_SUCCESS, UNINIT)

it_reset_in_list(d, n) ==
    Ok([d EXCEPT !.position = 0, !.current = d.first, !.previous = NULL],
       n, LDS_SUCCESS, UNINIT)

\* The while loop of it_go_in_list.
RECURSIVE go_loop(_, _, _)
go_loop(d, n, position) ==
    IF d.position < position
    THEN LET s == it_next_in_list(d, n)
         IN  IF s.fault THEN s ELSE go_loop(s.ds, n, position)
    ELSE Ok(d, n, LDS_SUCCESS, UNINIT)

\* The list go without the reset for a target behind the cursor.
it_go_in_list_no_reset(d, n, position) == go_loop(d, n, position)

it_go_in_list(d, n, position) ==
    IF position < d.position
    THEN go_loop(it_reset_in_list(d, n).ds, n, position)
    ELSE go_loop(d, n, position)

\* The while loop of it_go_in_list with its iterations counted: k calls of
\* it_next_in_list have been made so far.
RECURSIVE go_count(_, _, _, _, _)
go_count(d, n, position, resets, k) ==
    IF d.position < position
    THEN LET s == it_next_in_list(d, n)
         IN  IF s.fault
             THEN [ds |-> s.ds, resets |-> resets, advances |-> k, fault |-> TRUE]
             ELSE go_count(s.ds, n, position, resets, k + 1)
    ELSE [ds |-> d, resets |-> resets, advances |-> k, fault |-> FALSE]

\* it_go_in_list that starts over from first for every target.
it_go_in_list_counted_from_first(d, n, position) ==
    go_count(it_reset_in_list(d, n).ds, n, position, 1, 0)

\* it_go_in_list with its calls of it_reset_in_list and it_next_in_list
\* counted.
it_go_in_list_counted(d, n, position) ==
    IF position < d.position
    THEN go_count(it_reset_in_list(d, n).ds, n, position, 1, 0)
    ELSE go_count(d, n, position, 0, 0)

\* it_set_in_list without the memcmp test: it always stores.
it_set_in_list_always(d, n, value) ==
    IF ~Live(n, d.current) THEN Crash(d, n)
    ELSE Ok(d, [n EXCEPT ![d.current].data = value], LDS_SUCCESS, UNINIT)

it_set_in_list(d, n, value) ==
    IF ~Live(n, d.current) THEN Crash(d, n)
    ELSE IF n[d.current].data = value THEN Ok(d, n, LDS_FAIL, UNINIT)
    ELSE Ok(d, [n EXCEPT ![d.current].data = value], LDS_SUCCESS, UNINIT)

insert_element_in_list(d, n, position, value, mem) ==
    LET r == it_go_in_list(d, n, position)
    IN  IF ~r.fault /\ r.r = LDS_SUCCESS
        THEN it_add_in_list(r.ds, r.nodes, value, mem)
        ELSE r

remove_element_from_list(d, n, position, out_null) ==
    LET r == it_go_in_list(d, n, position)
    IN  IF ~r.fault /\ r.r = LDS_SUCCESS
        THEN it_remove_from_list(r.ds, r.nodes, out_null)
        ELSE r

\* get_element_from_list that puts the cursor back where it was.
get_element_from_list_restoring(d, n, position) ==
    LET r == it_go_in_list(d, n, position)
        w == IF ~r.fault /\ r.r = LDS_SUCCESS
             THEN it_get_from_list(r.ds, r.nodes)
             ELSE r
    IN  [w EXCEPT !.ds = [w.ds EXCEPT !.position = d.position,
                                      !.current = d.current,
                                      !.previous = d.previous]]

get_element_from_list(d, n, position) ==
    LET r == it_go_in_list(d, n, position)
    IN  IF ~r.fault /\ r.r = LDS_SUCCESS
        THEN it_get_from_list(r.ds, r.nodes)
        ELSE r

set_element_in_list(d, n, position, value) ==
    LET r == it_go_in_list(d, n, position)
    IN  IF ~r.fault /\ r.r = LDS_SUCCESS
        THEN it_set_in_list(r.ds, r.nodes, value)
        ELSE r

(* ------------------------ vector iterator ----------------------------- *)

it_add_in_vector(d, n, value, mem) ==
    insert_element_in_vector(d, n, d.position, value, mem)

it_next_in_vector(d, n) ==
    Ok([d EXCEPT !.position = Inc(d.position)], n, LDS_SUCCESS, UNINIT)

it_get_from_vector(d, n, u) == get_element_from_vector(d, n, d.position, u)

it_remove_from_vector(d, n, out_null, u) ==
    remove_element_from_vector(d, n, d.position, out_null, u)

it_reset_in_vector(d, n) ==
    Ok([d EXCEPT !.position = 0], n, LDS_SUCCESS, UNINIT)

it_go_in_vector(d, n, position) ==
    Ok([d EXCEPT !.position = position], n, LDS_SUCCESS, UNINIT)

it_set_in_vector(d, n, value, u) ==
    set_element_in_vector(d, n, d.position, value, u)

(* ------------- dispatch through the function pointers ----------------- *)

\* ds->insert, ds->remove, ds->get, ds->set as set by the constructors.
ds_insert(d, n, position, value, mem) ==
    IF d.type = LDS_VECTOR
    THEN insert_element_in_vector(d, n, position, value, mem)
    ELSE insert_element_in_list(d, n, position, value, mem)

ds_remove(d, n, position, out_null, u) ==
    IF d.type = LDS_VECTOR
    THEN remove_element_from_vector(d, n, position, out_null, u)
    ELSE remove_element_from_list(d, n, position, out_null)

ds_get(d, n, position, u) ==
    IF d.type = LDS_VECTOR
    THEN get_element_from_vector(d, n, position, u)
    ELSE get_element_from_list(d, n, position)

ds_set(d, n, position, value, u) ==
    IF d.type = LDS_VECTOR
    THEN set_element_in_vector(d, n, position, value, u)
    ELSE set_element_in_list(d, n, position, value)

\* it->add, it->next, it->get, it->set, it->remove, it->reset, it->go.
it_add(d, n, value, mem) ==
    IF d.type = LDS_VECTOR THEN it_add_in_vector(d, n, value, mem)
    ELSE it_add_in_list(d, n, value, mem)

it_next(d, n) ==
    IF d.type = LDS_VECTOR THEN it_next_in_vector(d, n) ELSE it_next_in_list(d, n)

it_get(d, n, u) ==
    IF d.type = LDS_VECTOR THEN it_get_from_vector(d, n, u)
    ELSE it_get_from_list(d, n)

it_set(d, n, value, u) ==
    IF d.type = LDS_VECTOR THEN it_set_in_vector(d, n, value, u)
    ELSE it_set_in_list(d, n, value)

it_remove(d, n, out_null, u) ==
    IF d.type = LDS_VECTOR THEN it_remove_from_vector(d, n, out_null, u)
    ELSE it_remove_from_list(d, n, out_null)

it_reset(d, n) ==
    IF d.type = LDS_VECTOR THEN it_reset_in_vector(d, n) ELSE it_reset_in_list(d, n)

it_go(d, n, position) ==
    IF d.type = LDS_VECTOR THEN it_go_in_vector(d, n, position)
    ELSE it_go_in_list(d, n, position)

(* ------------------------- public interface --------------------------- *)

\* The arguments of one call: a.ds_null, the LINEAR_DS* / LDS_ITERATOR* handle
\* is NULL; a.position; a.ptr_null, the value / element / removed_element
\* pointer is NULL; a.value, the element it points to; a.mem, what the
\* allocator does during the call; a.u, what an uninitialised slot reads as.
Args(ds_null, position, ptr_null, value, mem, u) ==
    [ds_null |-> ds_null, position |-> position, ptr_null |-> ptr_null,
     value |-> value, mem |-> mem, u |-> u]

lds_insert(d, n, a) ==
    IF a.ds_null \/ a.ptr_null THEN Ok(d, n, LDS_NULL, UNINIT)
    ELSE IF a.position > d.size THEN Ok(d, n, LDS_POS_ERR, UNINIT)
    ELSE ds_insert(d, n, a.position, a.value, a.mem)

\* Reads ds->size before any check of ds.
lds_insert_last(d, n, a) ==
    IF a.ds_null THEN Crash(d, n)
    ELSE lds_insert(d, n, [a EXCEPT !.position = d.size])

\* lds_get with the position test > in place of >=.
lds_get_past_end(d, n, a) ==
    IF a.ds_null \/ a.ptr_null THEN Ok(d, n, LDS_NULL, UNINIT)
    ELSE IF a.position > d.size THEN Ok(d, n, LDS_POS_ERR, UNINIT)
    ELSE ds_get(d, n, a.position, a.u)

lds_get(d, n, a) ==
    IF a.ds_null \/ a.ptr_null THEN Ok(d, n, LDS_NULL, UNINIT)
    ELSE IF a.position >= d.size THEN Ok(d, n, LDS_POS_ERR, UNINIT)
    ELSE ds_get(d, n, a.position, a.u)

\* lds_set with the position test ahead of the test for NULL.
lds_set_position_first(d, n, a) ==
    IF ~a.ds_null /\ a.position >= d.size THEN Ok(d, n, LDS_POS_ERR, UNINIT)
    ELSE IF a.ds_null \/ a.ptr_null THEN Ok(d, n, LDS_NULL, UNINIT)
    ELSE ds_set(d, n, a.position, a.value, a.u)

lds_set(d, n, a) ==
    IF a.ds_null \/ a.ptr_null THEN Ok(d, n, LDS_NULL, UNINIT)
    ELSE IF a.position >= d.size THEN Ok(d, n, LDS_POS_ERR, UNINIT)
    ELSE ds_set(d, n, a.position, a.value, a.u)

lds_remove(d, n, a) ==
    IF a.ds_null THEN Ok(d, n, LDS_NULL, UNINIT)
    ELSE IF a.position >= d.size THEN Ok(d, n, LDS_POS_ERR, UNINIT)
    ELSE ds_remove(d, n, a.position, a.ptr_null, a.u)

\* No position check: ds->size - 1 is handed to ds->remove as it is.
lds_remove_last(d, n, a) ==
    IF a.ds_null THEN Ok(d, n, LDS_NULL, UNINIT)
    ELSE ds_remove(d, n, Dec(d.size), a.ptr_null, a.u)

lds_it_add(d, n, a) ==
    IF a.ds_null \/ a.ptr_null THEN Ok(d, n, LDS_NULL, UNINIT)
    ELSE it_add(d, n, a.value, a.mem)

\* lds_it_next that refuses only a position beyond the size.
lds_it_next_past_end(d, n, a) ==
    IF a.ds_null THEN Ok(d, n, LDS_NULL, UNINIT)
    ELSE IF d.position > d.size THEN Ok(d, n, LDS_POS_ERR, UNINIT)
    ELSE it_next(d, n)

lds_it_next(d, n, a) ==
    IF a.ds_null THEN Ok(d, n, LDS_NULL, UNINIT)
    ELSE IF d.position = d.size THEN Ok(d, n, LDS_POS_ERR, UNINIT)
    ELSE it_next(d, n)

\* lds_it_has_next with the test <= in place of <.
lds_it_has_next_inclusive(d, n, a) ==
    IF a.ds_null THEN Ok(d, n, LDS_NULL, UNINIT)
    ELSE Ok(d, n, IF d.position <= d.size THEN LDS_SUCCESS ELSE LDS_FAIL, UNINIT)

lds_it_has_next(d, n, a) ==
    IF a.ds_null THEN Ok(d, n, LDS_NULL, UNINIT)
    ELSE Ok(d, n, IF d.position < d.size THEN LDS_SUCCESS ELSE LDS_FAIL, UNINIT)

lds_it_get(d, n, a) ==
    IF a.ds_null \/ a.ptr_null THEN Ok(d, n, LDS_NULL, UNINIT)
    ELSE IF d.position = d.size THEN Ok(d, n, LDS_POS_ERR, UNINIT)
    ELSE it_get(d, n, a.u)

lds_it_set(d, n, a) ==
    IF a.ds_null \/ a.ptr_null THEN Ok(d, n, LDS_NULL, UNINIT)
    ELSE IF d.position = d.size THEN Ok(d, n, LDS_POS_ERR, UNINIT)
    ELSE it_set(d, n, a.value, a.u)

lds_it_remove(d, n, a) ==
    IF a.ds_null THEN Ok(d, n, LDS_NULL, UNINIT)
    ELSE IF d.position = d.size THEN Ok(d, n, LDS_POS_ERR, UNINIT)
    ELSE it_remove(d, n, a.ptr_null, a.u)

lds_it_reset(d, n, a) ==
    IF a.ds_null THEN Ok(d, n, LDS_NULL, UNINIT)
    ELSE it_reset(d, n)

\* lds_it_go without the test pos > it->ds->size.
lds_it_go_unchecked(d, n, a) ==
    IF a.ds_null THEN Ok(d, n, LDS_NULL, UNINIT)
    ELSE it_go(d, n, a.position)

lds_it_go(d, n, a) ==
    IF a.ds_null THEN Ok(d, n, LDS_NULL, UNINIT)
    ELSE IF a.position > d.size THEN Ok(d, n, LDS_POS_ERR, UNINIT)
    ELSE it_go(d, n, a.position)

\* Result of a query that returns a size_t: the value, or undefined behaviour.
Answer(v) == [value |-> v, fault |-> FALSE]
NoAnswer == [value |-> 0, fault |-> TRUE]

\* (ds != NULL || ds->type == LDS_VECTOR) ? ds->capacity : 0: a NULL ds makes
\* the right operand of || read ds->type; any other ds yields its capacity
\* field, whatever its type.
lds_capacity(d, a) ==
    IF a.ds_null THEN NoAnswer ELSE Answer(d.capacity)

\* ds != NULL ? ds->size : 0
lds_size(d, a) ==
    IF a.ds_null THEN Answer(0) ELSE Answer(d.size)

\* ds != NULL ? ds->data_size : 0, whatever the type of ds.
lds_data_size(d, a) ==
    IF a.ds_null THEN Answer(0) ELSE Answer(d.data_size)

lds_stack_push(d, n, a) == lds_insert(d, n, [a EXCEPT !.position = 0])
\* lds_stack_pop that removes at the other end.
lds_stack_pop_last(d, n, a) == lds_remove(d, n, [a EXCEPT !.position = Dec(d.size)])
lds_stack_pop(d, n, a) == lds_remove(d, n, [a EXCEPT !.position = 0])
lds_stack_peek(d, n, a) == lds_get(d, n, [a EXCEPT !.position = 0])
\* lds_enqueue that inserts at the front.
lds_enqueue_front(d, n, a) == lds_insert(d, n, [a EXCEPT !.position = 0])
lds_enqueue(d, n, a) == lds_insert_last(d, n, a)
lds_dequeue(d, n, a) == lds_remove(d, n, [a EXCEPT !.position = 0])
lds_queue_front(d, n, a) == lds_get(d, n, [a EXCEPT !.position = 0])

(* ------------------------------ state --------------------------------- *)

VARIABLES
    ds,      \* the LinearDS structure, its embedded iterator included
    nodes,   \* the heap of list nodes: node -> [alloc, data, next]
    fault,   \* the last call ran into undefined behaviour; the run ends
    net,     \* successful insertions minus successful removals so far
    twin     \* a second structure and its heap, driven with the same calls

vars == <<ds, nodes, fault, net, twin>>

\* No second structure has been constructed.
NoTwin == [ds |-> NULL, nodes |-> <<>>]

\* The operations of the reference sequence the test driver compares with (a
\* std::vector), positions counted from 0 as in the C interface.
InsertAt(s, p, v) == SubSeq(s, 1, p) \o <<v>> \o SubSeq(s, p + 1, Len(s))
RemoveAt(s, p) == SubSeq(s, 1, p) \o SubSeq(s, p + 2, Len(s))
SetAt(s, p, v) == [s EXCEPT ![p + 1] = v]

Init ==
    /\ \/ \E c \in InitCaps : ds = lds_new_vector(c, ElemSize)
       \/ \E junk \in Indeterminate : ds = lds_new_list(ElemSize, junk)
    /\ nodes = [x \in Nodes |-> FreeNode]
    /\ fault = FALSE
    /\ net = 0
    /\ twin = NoTwin

\* The explored part of the state space: an insertion is explored while the
\* buffer need not grow past MaxCap and the heap has a node left.
Room ==
    IF ds.type = LDS_VECTOR
    THEN ds.size # ds.capacity \/ NewCapacity(ds) <= MaxCap
    ELSE HasFreeNode(nodes)

\* The effect of one call on the state: w is the call's result (its return
\* code w.r and output w.out go to the caller); kind tells whether the call
\* is an insertion or a removal.
Commit(w, kind) ==
    LET done == ~w.fault /\ w.r = LDS_SUCCESS
    IN  /\ ~fault
        /\ ds.size <= MaxCap
        /\ ds' = w.ds
        /\ nodes' = w.nodes
        /\ fault' = w.fault
        /\ net' = CASE done /\ kind = "insert" -> net + 1
                    [] done /\ kind = "remove" -> net - 1
                    [] OTHER -> net
        /\ UNCHANGED twin

(* --------------------------- argument sets ---------------------------- *)

\* What a read of the slot of logical position p may yield when the slot was
\* never written.
Reads(p) ==
    IF ds.type = LDS_VECTOR /\ ds.capacity > 0
    THEN IF ds.vector[Index(ds, p)] = UNINIT THEN Val ELSE {1}
    ELSE {1}

NullHandle == {Args(TRUE, 0, FALSE, UNINIT, "ok", 1)}
NullPointer(P) == {Args(FALSE, p, TRUE, UNINIT, "ok", 1) : p \in P}

\* Calls with every pointer valid.
InsertValid(P) == {Args(FALSE, p, FALSE, v, m, 1) : p \in P, v \in Val, m \in Mem}
GetValid(P) == UNION {{Args(FALSE, p, FALSE, UNINIT, "ok", u) : u \in Reads(p)} : p \in P}
SetValid(P) ==
    UNION {{Args(FALSE, p, FALSE, v, "ok", u) : v \in Val, u \in Reads(p)} : p \in P}
RemoveValid(P) ==
    UNION {{Args(FALSE, p, pn, UNINIT, "ok", u) : pn \in BOOLEAN, u \in Reads(p)} : p \in P}

(* ----------------------------- actions -------------------------------- *)

LdsInsert(a) ==
    Room /\ Commit(lds_insert(ds, nodes, a), "insert")

LdsInsertLast(a) ==
    Room /\ Commit(lds_insert_last(ds, nodes, a), "insert")

LdsGet(a) == Commit(lds_get(ds, nodes, a), "get")

LdsSet(a) == Commit(lds_set(ds, nodes, a), "set")

LdsRemove(a) ==
    Commit(lds_remove(ds, nodes, a), "remove")

LdsRemoveLast(a) ==
    Commit(lds_remove_last(ds, nodes, a), "remove")

LdsItAdd(a) ==
    Room /\ Commit(lds_it_add(ds, nodes, a), "insert")

\* Once the position has passed the size nothing stops it_next_in_vector; the
\* positions explored end at MaxCap + 1.
LdsItNext(a) ==
    ds.position <= MaxCap /\ Commit(lds_it_next(ds, nodes, a), "next")

LdsItHasNext(a) ==
    Commit(lds_it_has_next(ds, nodes, a), "query")

LdsItGet(a) == Commit(lds_it_get(ds, nodes, a), "get")

LdsItSet(a) == Commit(lds_it_set(ds, nodes, a), "set")

LdsItRemove(a) ==
    Commit(lds_it_remove(ds, nodes, a), "remove")

LdsItReset(a) == Commit(lds_it_reset(ds, nodes, a), "reset")

LdsItGo(a) == Commit(lds_it_go(ds, nodes, a), "go")

LdsStackPush(a) ==
    Room /\ Commit(lds_stack_push(ds, nodes, a), "insert")

LdsStackPop(a) ==
    Commit(lds_stack_pop(ds, nodes, a), "remove")

LdsStackPeek(a) ==
    Commit(lds_stack_peek(ds, nodes, a), "get")

LdsEnqueue(a) ==
    Room /\ Commit(lds_enqueue(ds, nodes, a), "insert")

LdsDequeue(a) ==
    Commit(lds_dequeue(ds, nodes, a), "remove")

LdsQueueFront(a) ==
    Commit(lds_queue_front(ds, nodes, a), "get")

LdsCapacity(a) ==
    /\ ~fault
    /\ ds.size <= MaxCap
    /\ fault' = lds_capacity(ds, a).fault
    /\ UNCHANGED <<ds, nodes, net, twin>>

LdsSize(a) ==
    /\ ~fault
    /\ ds.size <= MaxCap
    /\ fault' = lds_size(ds, a).fault
    /\ UNCHANGED <<ds, nodes, net, twin>>

LdsDataSize(a) ==
    /\ ~fault
    /\ ds.size <= MaxCap
    /\ fault' = lds_data_size(ds, a).fault
    /\ UNCHANGED <<ds, nodes, net, twin>>

\* Every call of the public interface, with valid and with NULL arguments and
\* with positions inside and outside the structure.
Next ==
    \/ \E a \in InsertValid(Positions) \cup NullHandle \cup NullPointer(Positions) :
          LdsInsert(a)
    \/ \E a \in InsertValid({0}) \cup NullHandle \cup NullPointer({0}) :
          LdsInsertLast(a)
    \/ \E a \in GetValid(Positions) \cup NullHandle \cup NullPointer(Positions) :
          LdsGet(a)
    \/ \E a \in SetValid(Positions) \cup NullHandle \cup NullPointer(Positions) :
          LdsSet(a)
    \/ \E a \in RemoveValid(Positions) \cup NullHandle : LdsRemove(a)
    \/ \E a \in RemoveValid({Dec(ds.size)}) \cup NullHandle : LdsRemoveLast(a)
    \/ \E a \in InsertValid({0}) \cup NullHandle \cup NullPointer({0}) : LdsItAdd(a)
    \/ \E a \in GetValid({0}) \cup NullHandle : LdsItNext(a)
    \/ \E a \in GetValid({0}) \cup NullHandle : LdsItHasNext(a)
    \/ \E a \in GetValid({ds.position}) \cup NullHandle \cup NullPointer({0}) :
          LdsItGet(a)
    \/ \E a \in SetValid({ds.position}) \cup NullHandle \cup NullPointer({0}) :
          LdsItSet(a)
    \/ \E a \in RemoveValid({ds.position}) \cup NullHandle : LdsItRemove(a)
    \/ \E a \in GetValid({0}) \cup NullHandle : LdsItReset(a)
    \/ \E a \in GetValid(Positions) \cup NullHandle : LdsItGo(a)
    \/ \E a \in InsertValid({0}) \cup NullHandle \cup NullPointer({0}) :
          LdsStackPush(a)
    \/ \E a \in RemoveValid({0}) \cup NullHandle : LdsStackPop(a)
    \/ \E a \in GetValid({0}) \cup NullHandle \cup NullPointer({0}) : LdsStackPeek(a)
    \/ \E a \in InsertValid({0}) \cup NullHandle \cup NullPointer({0}) : LdsEnqueue(a)
    \/ \E a \in RemoveValid({0}) \cup NullHandle : LdsDequeue(a)
    \/ \E a \in GetValid({0}) \cup NullHandle \cup NullPointer({0}) : LdsQueueFront(a)
    \/ \E a \in GetValid({0}) \cup NullHandle : LdsCapacity(a)

    \/ \E a \in GetValid({0}) \cup NullHandle : LdsSize(a)
    \/ \E a \in GetValid({0}) \cup NullHandle : LdsDataSize(a)
Spec == Init /\ [][Next]_vars

\* The direct container operations alone, as test_lds drives them.
NextDirect ==
    \/ \E a \in InsertValid(Positions) \cup NullHandle \cup NullPointer(Positions) :
          LdsInsert(a)
    \/ \E a \in GetValid(Positions) \cup NullHandle \cup NullPointer(Positions) :
          LdsGet(a)
    \/ \E a \in SetValid(Positions) \cup NullHandle \cup NullPointer(Positions) :
          LdsSet(a)
    \/ \E a \in RemoveValid(Positions) \cup NullHandle : LdsRemove(a)

SpecDirect == Init /\ [][NextDirect]_vars

\* The iterator operations alone, as test_it drives them.
NextCursor ==
    \/ \E a \in InsertValid({0}) \cup NullHandle \cup NullPointer({0}) : LdsItAdd(a)
    \/ \E a \in GetValid({0}) \cup NullHandle : LdsItNext(a)
    \/ \E a \in GetValid({ds.position}) \cup NullHandle \cup NullPointer({0}) :
          LdsItGet(a)
    \/ \E a \in SetValid({ds.position}) \cup NullHandle \cup NullPointer({0}) :
          LdsItSet(a)
    \/ \E a \in RemoveValid({ds.position}) \cup NullHandle : LdsItRemove(a)
    \/ \E a \in GetValid(Positions) \cup NullHandle : LdsItGo(a)

SpecCursor == Init /\ [][NextCursor]_vars

(* ------------------------- observed contents -------------------------- *)

\* verificar: the elements lds_get returns for the positions p, p + 1, ...,
\* size - 1, one call after the other; a slot no memcpy has written reads as
\* UNINIT, which is no element of Val.
RECURSIVE ReadFrom(_, _, _)
ReadFrom(d, n, p) ==
    IF p >= d.size THEN <<>>
    ELSE LET w == lds_get(d, n, Args(FALSE, p, FALSE, UNINIT, "ok", UNINIT))
         IN  IF w.fault \/ w.r # LDS_SUCCESS THEN <<>>
             ELSE <<w.out>> \o ReadFrom(w.ds, w.nodes, p + 1)

ReadBack(d, n) == ReadFrom(d, n, 0)

(* ----------------------- C1: direct operations ------------------------ *)

\* A call with every pointer valid whose allocations are all served.
Served(a) == a.mem = "ok"

\* C1: in every state reached by direct calls, on either strategy, with S the
\* elements read back by get(0 .. size-1): a served insert(pos, v) with
\* pos <= size succeeds and the read-back becomes S with v inserted at pos (a
\* refused one leaves it S); remove(pos) with pos < size succeeds, hands out
\* S[pos] and the read-back becomes S without that element; get(pos) hands out
\* S[pos] and leaves the read-back S; set(pos, v) makes the read-back S with v
\* at pos.  S holds size elements, each one a value some call stored.
C1_DirectRefinesSequence ==
    LET S == ReadBack(ds, nodes)
    IN  /\ Len(S) = ds.size
        /\ \A i \in 1 .. Len(S) : S[i] \in Val
        /\ Room =>
             \A a \in InsertValid(0 .. ds.size) :
                LET w == lds_insert(ds, nodes, a)
                IN  /\ ~w.fault
                    /\ Served(a) => w.r = LDS_SUCCESS
                    /\ ReadBack(w.ds, w.nodes) =
                          IF w.r = LDS_SUCCESS
                          THEN InsertAt(S, a.position, a.value) ELSE S
        /\ \A a \in RemoveValid(0 .. ds.size - 1) :
              LET w == lds_remove(ds, nodes, a)
              IN  /\ ~w.fault /\ w.r = LDS_SUCCESS
                  /\ ~a.ptr_null => w.out = S[a.position + 1]
                  /\ ReadBack(w.ds, w.nodes) = RemoveAt(S, a.position)
        /\ \A a \in GetValid(0 .. ds.size - 1) :
              LET w == lds_get(ds, nodes, a)
              IN  /\ ~w.fault /\ w.r = LDS_SUCCESS
                  /\ w.out = S[a.position + 1]
                  /\ ReadBack(w.ds, w.nodes) = S
        /\ \A a \in SetValid(0 .. ds.size - 1) :
              LET w == lds_set(ds, nodes, a)
              IN  /\ ~w.fault
                  /\ w.r = IF S[a.position + 1] = a.value
                           THEN LDS_FAIL ELSE LDS_SUCCESS
                  /\ ReadBack(w.ds, w.nodes) = SetAt(S, a.position, a.value)

\* A grown buffer whose elements wrap past its end.
C1_Witness ==
    /\ ds.type = LDS_VECTOR /\ ds.capacity = MaxCap
    /\ ds.size >= 3 /\ ds.head + ds.size > ds.capacity
    /\ \E i, j \in 0 .. ds.capacity - 1 :
          ds.vector[i] \in Val /\ ds.vector[j] \in Val /\ ds.vector[i] # ds.vector[j]

(* ----------------------- C2: cursor operations ------------------------ *)

\* The call left the structure and the node heap as they were.
Untouched(w) == ~w.fault /\ w.ds = ds /\ w.nodes = nodes

\* C2: in every state reached by cursor calls from a fresh container, on
\* either strategy, with S the contents and p the cursor position (p <= size):
\* a served add(v) succeeds, makes the contents S with v inserted at p and
\* keeps the position p; remove at p < size hands out S[p], makes the contents
\* S without it and keeps p; get at p < size hands out S[p] and changes
\* nothing; set(v) at p < size makes the contents S with v at p and keeps p; a
\* successful next leaves the contents and makes the position p + 1; go(k),
\* k <= size, leaves the contents and makes the position k; at p = size
\* remove, get, set and next return LDS_POS_ERR and change nothing.
C2_CursorRefinesSequence ==
    LET S == ReadBack(ds, nodes)
        p == ds.position
    IN  /\ Len(S) = ds.size /\ p <= ds.size
        /\ Room =>
             \A a \in InsertValid({0}) :
                LET w == lds_it_add(ds, nodes, a)
                IN  /\ ~w.fault /\ w.ds.position = p
                    /\ Served(a) => w.r = LDS_SUCCESS
                    /\ ReadBack(w.ds, w.nodes) =
                          IF w.r = LDS_SUCCESS THEN InsertAt(S, p, a.value) ELSE S
        /\ \A a \in RemoveValid({p}) :
              LET w == lds_it_remove(ds, nodes, a)
              IN  IF p < ds.size
                  THEN /\ ~w.fault /\ w.r = LDS_SUCCESS /\ w.ds.position = p
                       /\ ~a.ptr_null => w.out = S[p + 1]
                       /\ ReadBack(w.ds, w.nodes) = RemoveAt(S, p)
                  ELSE w.r = LDS_POS_ERR /\ Untouched(w)
        /\ \A a \in GetValid({p}) :
              LET w == lds_it_get(ds, nodes, a)
              IN  IF p < ds.size
                  THEN w.r = LDS_SUCCESS /\ w.out = S[p + 1] /\ Untouched(w)
                  ELSE w.r = LDS_POS_ERR /\ Untouched(w)
        /\ \A a \in SetValid({p}) :
              LET w == lds_it_set(ds, nodes, a)
              IN  IF p < ds.size
                  THEN /\ ~w.fault /\ w.ds.position = p
                       /\ w.r = IF S[p + 1] = a.value THEN LDS_FAIL ELSE LDS_SUCCESS
                       /\ ReadBack(w.ds, w.nodes) = SetAt(S, p, a.value)
                  ELSE w.r = LDS_POS_ERR /\ Untouched(w)
        /\ \A a \in GetValid({0}) :
              LET w == lds_it_next(ds, nodes, a)
              IN  IF p < ds.size
                  THEN /\ ~w.fault /\ w.r = LDS_SUCCESS /\ w.ds.position = p + 1
                       /\ ReadBack(w.ds, w.nodes) = S
                  ELSE w.r = LDS_POS_ERR /\ Untouched(w)
        /\ \A a \in GetValid(0 .. ds.size) :
              LET w == lds_it_go(ds, nodes, a)
              IN  /\ ~w.fault /\ w.r = LDS_SUCCESS /\ w.ds.position = a.position
                  /\ ReadBack(w.ds, w.nodes) = S

\* A list of three nodes with the cursor on the middle one.
C2_Witness ==
    /\ ds.type = LDS_LINKED_LIST /\ ds.size = 3 /\ ds.position = 1
    /\ ds.current # NULL /\ ds.previous = ds.first /\ ds.current # ds.last

(* ------------------ C3: cursor position within size ------------------- *)

\* C3: after any interleaving of direct and cursor calls, on either strategy,
\* the cursor position is at most size (it is a size_t: never below 0).
C3_PositionWithinSize == ~fault => (0 <= ds.position /\ ds.position <= ds.size)

\* The buffer after a direct remove below a cursor that stood at the end.
C3_Witness ==
    ~fault /\ ds.type = LDS_VECTOR /\ ds.size = 0 /\ ds.position = 1

(* ---------------------- C4: removeLast on empty ----------------------- *)

\* C4: in every state lds_remove_last(ds, out) returns what
\* lds_remove(ds, size - 1, out) returns and leaves the same structure; on an
\* empty container that is LDS_POS_ERR with nothing changed.
C4_RemoveLastIsRemoveAtLast ==
    ~fault =>
       \A a \in RemoveValid({Dec(ds.size)}) :
          /\ lds_remove_last(ds, nodes, a) = lds_remove(ds, nodes, a)
          /\ ds.size = 0 =>
                lds_remove_last(ds, nodes, a) = Ok(ds, nodes, LDS_POS_ERR, UNINIT)

\* The buffer after lds_remove_last on an empty buffer of three slots: the
\* tail has moved back and the size has wrapped.
C4_Witness ==
    /\ ~fault /\ ds.type = LDS_VECTOR /\ ds.capacity = 3
    /\ ds.head = 0 /\ ds.tail = 2 /\ ds.size = SIZE_MOD - 1

(* --------------------- C5: position out of range ---------------------- *)

\* C5: for direct calls with a valid container and valid value / element
\* pointers (remove: any removed_element pointer): insert returns LDS_POS_ERR
\* exactly when position > size; get, set and remove return it exactly when
\* position >= size; and a call that returns it leaves the whole structure,
\* iterator and list nodes included, as it was.
C5_PositionErrorExactlyOutOfRange ==
    /\ \A a \in InsertValid(Positions) :
          LET w == lds_insert(ds, nodes, a)
          IN  /\ ~w.fault
              /\ w.r = LDS_POS_ERR <=> a.position > ds.size
              /\ w.r = LDS_POS_ERR => Untouched(w)
    /\ \A a \in GetValid(Positions) :
          LET w == lds_get(ds, nodes, a)
          IN  /\ ~w.fault
              /\ w.r = LDS_POS_ERR <=> a.position >= ds.size
              /\ w.r = LDS_POS_ERR => Untouched(w)
    /\ \A a \in SetValid(Positions) :
          LET w == lds_set(ds, nodes, a)
          IN  /\ ~w.fault
              /\ w.r = LDS_POS_ERR <=> a.position >= ds.size
              /\ w.r = LDS_POS_ERR => Untouched(w)
    /\ \A a \in RemoveValid(Positions) :
          LET w == lds_remove(ds, nodes, a)
          IN  /\ ~w.fault
              /\ w.r = LDS_POS_ERR <=> a.position >= ds.size
              /\ w.r = LDS_POS_ERR => Untouched(w)

\* A list whose cursor a direct call has left on its second node: positions
\* inside and outside the list exist, and the cursor is away from the start.
C5_Witness ==
    /\ ds.type = LDS_LINKED_LIST /\ ds.size = 2 /\ ds.position = 1
    /\ ds.current = ds.last /\ ds.previous = ds.first

(* ------------------------- C6: NULL arguments ------------------------- *)

\* C6: every entry point called with a NULL handle returns LDS_NULL and
\* changes nothing; insert, set and get called with a NULL value / element
\* pointer return LDS_NULL; remove with a NULL removed_element pointer and a
\* position inside the container succeeds and stores nothing.
C6_NullArgumentsReturnNull ==
    ~fault =>
       /\ \A a \in NullHandle :
             \A w \in {lds_insert(ds, nodes, a), lds_insert_last(ds, nodes, a),
                       lds_get(ds, nodes, a), lds_set(ds, nodes, a),
                       lds_remove(ds, nodes, a), lds_remove_last(ds, nodes, a),
                       lds_it_add(ds, nodes, a), lds_it_next(ds, nodes, a),
                       lds_it_has_next(ds, nodes, a), lds_it_get(ds, nodes, a),
                       lds_it_set(ds, nodes, a), lds_it_remove(ds, nodes, a),
                       lds_it_reset(ds, nodes, a), lds_it_go(ds, nodes, a),
                       lds_stack_push(ds, nodes, a), lds_stack_pop(ds, nodes, a),
                       lds_stack_peek(ds, nodes, a), lds_enqueue(ds, nodes, a),
                       lds_dequeue(ds, nodes, a), lds_queue_front(ds, nodes, a)} :
                w = Ok(ds, nodes, LDS_NULL, UNINIT)
       /\ \A a \in NullPointer(Positions) :
             \A w \in {lds_insert(ds, nodes, a), lds_get(ds, nodes, a),
                       lds_set(ds, nodes, a)} :
                w = Ok(ds, nodes, LDS_NULL, UNINIT)
       /\ ds.size <= MaxCap =>
             \A a \in NullPointer(0 .. ds.size - 1) :
                LET w == lds_remove(ds, nodes, a)
                IN  \/ w.fault
                    \/ w.r = LDS_SUCCESS /\ w.out = UNINIT
                                         /\ w.ds.size = ds.size - 1

\* A fresh buffer of three slots on which a call has run into undefined
\* behaviour: lds_insert_last, lds_enqueue and lds_capacity with a NULL
\* handle do, and no other call.
C6_Witness == fault /\ ds = lds_new_vector(3, ElemSize)

(* ------------------------ C7: size accounting ------------------------- *)

\* C7: size is the number of insert-type calls that returned LDS_SUCCESS
\* minus the number of remove-type calls that returned LDS_SUCCESS since
\* creation, and that number is never negative.
C7_SizeIsNetInsertions == ~fault => (ds.size = net /\ net >= 0)

\* More removals than insertions have returned LDS_SUCCESS.
C7_Witness == ~fault /\ net < 0 /\ ds.size > MaxCap

(* --------------------- C8: growth of a full buffer -------------------- *)

\* C8: on a full buffer (size = capacity), with the head at whatever slot it
\* has reached, the growth step leaves the read-back contents S as they were,
\* and an insert at any position 0 .. size whose realloc is served succeeds
\* and makes the contents S with only the new value added at that position.
C8_GrowthKeepsOrder ==
    (ds.type = LDS_VECTOR /\ ds.size = ds.capacity) =>
       LET S == ReadBack(ds, nodes)
           g == grow_vector(ds)
       IN  /\ Len(S) = ds.size
           /\ g.capacity = NewCapacity(ds) /\ g.size = ds.size
           /\ ReadBack(g, nodes) = S
           /\ \A a \in InsertValid(0 .. ds.size) :
                 LET w == lds_insert(ds, nodes, a)
                 IN  a.mem # "fail_first" =>
                        /\ ~w.fault /\ w.r = LDS_SUCCESS
                        /\ w.ds.capacity = NewCapacity(ds)
                        /\ ReadBack(w.ds, w.nodes) = InsertAt(S, a.position, a.value)

\* A full buffer of at least three slots whose first element sits in the
\* last slot, so that all the others lie before it.
C8_Witness ==
    /\ ds.type = LDS_VECTOR /\ ds.size = ds.capacity /\ ds.capacity >= 3
    /\ ds.head = ds.capacity - 1 /\ ds.tail = ds.head

(* ----------------- C9: independence of the head offset ---------------- *)

\* The buffer d with the same logical elements laid out from slot h on.
Layout(d, h) ==
    [d EXCEPT !.vector = [i \in 0 .. d.capacity - 1 |->
                             d.vector[(i - h + d.head + d.capacity) % d.capacity]],
              !.head = h,
              !.tail = (d.tail - d.head + h + d.capacity) % d.capacity]

\* C9: for a buffer holding the logical sequence S and every head offset
\* h in 0 .. capacity-1, insert(pos, v) and remove(pos) applied to the layout
\* that starts at h return the same code and value and leave the same logical
\* sequence as applied to the layout that starts at 0.
C9_LayoutIndependent ==
    (ds.type = LDS_VECTOR /\ ds.capacity > 0) =>
       \A h \in 0 .. ds.capacity - 1 :
          LET e == Layout(ds, h)
              b == Layout(ds, 0)
          IN  /\ ReadBack(e, nodes) = ReadBack(b, nodes)
              /\ \A a \in InsertValid(0 .. ds.size) :
                    LET we == lds_insert(e, nodes, a)
                        wb == lds_insert(b, nodes, a)
                    IN  /\ ~we.fault /\ ~wb.fault /\ we.r = wb.r
                        /\ ReadBack(we.ds, nodes) = ReadBack(wb.ds, nodes)
              /\ \A a \in RemoveValid(0 .. ds.size - 1) :
                    LET we == lds_remove(e, nodes, a)
                        wb == lds_remove(b, nodes, a)
                    IN  /\ ~we.fault /\ ~wb.fault /\ we.r = wb.r
                        /\ we.out = wb.out
                        /\ ReadBack(we.ds, nodes) = ReadBack(wb.ds, nodes)

\* A buffer with a spare slot whose elements wrap past the buffer end and
\* whose tail is slot 0.
C9_Witness ==
    /\ ds.type = LDS_VECTOR /\ ds.capacity = MaxCap
    /\ ds.size = 3 /\ ds.head = 1 /\ ds.tail = 0

(* ----------------------------- C10: go(k) ----------------------------- *)

\* C10: in every state reached by cursor calls, on either strategy, for
\* every k <= size, go(k) returns LDS_SUCCESS and leaves the position k; for
\* k < size the cursor get that follows succeeds and yields the element the
\* direct get at k yields.
C10_GoReachesTarget ==
    \A a \in GetValid(0 .. ds.size) :
       LET w == lds_it_go(ds, nodes, a)
           i == lds_it_get(w.ds, w.nodes, a)
           g == lds_get(w.ds, w.nodes, a)
       IN  /\ ~w.fault /\ w.r = LDS_SUCCESS /\ w.ds.position = a.position
           /\ a.position < ds.size =>
                 /\ ~i.fault /\ i.r = LDS_SUCCESS
                 /\ ~g.fault /\ g.r = LDS_SUCCESS
                 /\ i.out = g.out /\ i.out \in Val

\* A list of three nodes with the cursor on the last one: go has targets
\* behind, at and ahead of the cursor.
C10_Witness ==
    /\ ds.type = LDS_LINKED_LIST /\ ds.size = 3 /\ ds.position = 2
    /\ ds.current = ds.last /\ ds.previous # NULL

(* --------------------- C11: set of the same value --------------------- *)

\* C11: on either strategy, with S the contents: a direct set(pos, v) with
\* pos < size and v = S[pos], and a cursor set(v) with the cursor at p < size
\* and v = S[p], return LDS_FAIL (not LDS_SUCCESS, not an error code) and
\* leave the size, the contents and every stored element as they were; the
\* cursor set changes nothing at all.
C11_SetSameValueUnchanged ==
    LET S == ReadBack(ds, nodes)
    IN  /\ \A a \in SetValid(0 .. ds.size - 1) :
              a.value = S[a.position + 1] =>
                 LET w == lds_set(ds, nodes, a)
                 IN  /\ ~w.fault /\ w.r = LDS_FAIL
                     /\ w.ds.size = ds.size /\ ReadBack(w.ds, w.nodes) = S
                     /\ w.nodes = nodes /\ w.ds.vector = ds.vector
                     /\ w.ds.head = ds.head /\ w.ds.tail = ds.tail
        /\ ds.position < ds.size =>
              \A a \in SetValid({ds.position}) :
                 a.value = S[ds.position + 1] =>
                    lds_it_set(ds, nodes, a).r = LDS_FAIL
                       /\ Untouched(lds_it_set(ds, nodes, a))

\* A buffer of two different elements with the cursor on the second one.
C11_Witness ==
    /\ ds.type = LDS_VECTOR /\ ds.size = 2 /\ ds.position = 1
    /\ ReadBack(ds, nodes) = <<1, 2>>

(* ----------------------- C12: allocation failure ---------------------- *)

\* An allocation of the insert a fails: the realloc of a full buffer, or the
\* malloc of the list node or of its element.
AllocFails(a) ==
    IF ds.type = LDS_VECTOR
    THEN ds.size = ds.capacity /\ a.mem = "fail_first"
    ELSE a.mem # "ok" \/ ~HasFreeNode(nodes)

\* The store of the result w is the store before the call: size, and the
\* buffer with its capacity, head and tail, or first, last and every node
\* with its next link.
StoreKept(w) ==
    /\ ~w.fault
    /\ w.ds.size = ds.size
    /\ IF ds.type = LDS_VECTOR
       THEN /\ w.ds.capacity = ds.capacity /\ w.ds.vector = ds.vector
            /\ w.ds.head = ds.head /\ w.ds.tail = ds.tail
       ELSE /\ w.ds.first = ds.first /\ w.ds.last = ds.last
            /\ w.nodes = nodes

\* C12: an insert (direct, at any position 0 .. size, or through the cursor)
\* whose allocation fails returns LDS_FAIL and keeps the store and the
\* contents read back from it.
C12_AllocationFailureKeepsStore ==
    LET S == ReadBack(ds, nodes)
    IN  /\ \A a \in InsertValid(0 .. ds.size) :
              AllocFails(a) =>
                 LET w == lds_insert(ds, nodes, a)
                 IN  /\ w.r = LDS_FAIL /\ StoreKept(w)
                     /\ ReadBack(w.ds, w.nodes) = S
        /\ \A a \in InsertValid({0}) :
              AllocFails(a) =>
                 LET w == lds_it_add(ds, nodes, a)
                 IN  /\ w.r = LDS_FAIL /\ StoreKept(w)
                     /\ ReadBack(w.ds, w.nodes) = S

\* A full buffer of two slots whose first element is in the second slot.
C12_Witness ==
    /\ ds.type = LDS_VECTOR /\ ds.capacity = 2 /\ ds.size = 2
    /\ ds.head = 1 /\ ds.position = 1

(* ------------------------ C13: after-last state ----------------------- *)

\* C13: with the cursor after the last element (position = size, the empty
\* container included), cursor get, set, remove and next return LDS_POS_ERR
\* and change neither the container nor the cursor, while a served add,
\* go(k) for k <= size and reset return LDS_SUCCESS.
C13_AfterLast ==
    ds.position = ds.size =>
       /\ \A a \in GetValid({ds.position}) :
             /\ lds_it_get(ds, nodes, a).r = LDS_POS_ERR
             /\ Untouched(lds_it_get(ds, nodes, a))
             /\ lds_it_next(ds, nodes, a).r = LDS_POS_ERR
             /\ Untouched(lds_it_next(ds, nodes, a))
       /\ \A a \in SetValid({ds.position}) :
             /\ lds_it_set(ds, nodes, a).r = LDS_POS_ERR
             /\ Untouched(lds_it_set(ds, nodes, a))
       /\ \A a \in RemoveValid({ds.position}) :
             /\ lds_it_remove(ds, nodes, a).r = LDS_POS_ERR
             /\ Untouched(lds_it_remove(ds, nodes, a))
       /\ Room =>
             \A a \in InsertValid({0}) :
                Served(a) =>
                   LET w == lds_it_add(ds, nodes, a)
                   IN  /\ ~w.fault /\ w.r = LDS_SUCCESS
                       /\ w.ds.size = ds.size + 1
       /\ \A a \in GetValid(0 .. ds.size) :
             LET w == lds_it_go(ds, nodes, a)
             IN  ~w.fault /\ w.r = LDS_SUCCESS /\ w.ds.position = a.position
       /\ \A a \in GetValid({0}) :
             LET w == lds_it_reset(ds, nodes, a)
             IN  ~w.fault /\ w.r = LDS_SUCCESS /\ w.ds.position = 0

\* A list of two nodes with the cursor behind the last one.
C13_Witness ==
    /\ ds.type = LDS_LINKED_LIST /\ ds.size = 2 /\ ds.position = 2
    /\ ds.current = NULL /\ ds.previous = ds.last /\ ds.last # NULL

(* --------------------------- C14: cursor add -------------------------- *)

\* C14: in every state (of the explored sizes), a cursor add(v) that returns
\* LDS_SUCCESS with the cursor at p makes the contents S with v inserted at
\* index p (the former S[p] is at p + 1), leaves the position p, and the
\* cursor get that follows yields v; for p = size the contents are those
\* lds_insert_last(v) produces.
C14_CursorAdd ==
    LET S == ReadBack(ds, nodes)
        p == ds.position
    IN  (~fault /\ ds.size <= MaxCap /\ Room) =>
           \A a \in InsertValid({0}) :
              LET w == lds_it_add(ds, nodes, a)
                  g == lds_it_get(w.ds, w.nodes, Args(FALSE, 0, FALSE, UNINIT, "ok", UNINIT))
                  l == lds_insert_last(ds, nodes, a)
              IN  /\ ~w.fault
                  /\ w.r = LDS_SUCCESS =>
                        /\ w.ds.size = ds.size + 1
                        /\ w.ds.position = p
                        /\ p < Len(ReadBack(w.ds, w.nodes))
                        /\ ReadBack(w.ds, w.nodes) = InsertAt(S, p, a.value)
                        /\ ~g.fault /\ g.r = LDS_SUCCESS /\ g.out = a.value
                        /\ p = ds.size =>
                              /\ ~l.fault /\ l.r = LDS_SUCCESS
                              /\ ReadBack(l.ds, l.nodes) = ReadBack(w.ds, w.nodes)

\* An empty buffer with a spare slot whose cursor is at position 1.
C14_Witness ==
    /\ ~fault /\ ds.type = LDS_VECTOR /\ ds.capacity = 1
    /\ ds.size = 0 /\ ds.position = 1

(* ------------------------- C15: cursor remove ------------------------- *)

\* C15: a cursor remove with the cursor at p < size returns LDS_SUCCESS and
\* the element S[p], makes the size one less and the contents S without that
\* element, and leaves the position p; the cursor get that follows yields the
\* former S[p + 1], or, when p was the last index, the cursor is after the
\* last element and the get returns LDS_POS_ERR.
C15_CursorRemove ==
    LET S == ReadBack(ds, nodes)
        p == ds.position
    IN  p < ds.size =>
           \A a \in RemoveValid({p}) :
              LET w == lds_it_remove(ds, nodes, a)
                  g == lds_it_get(w.ds, w.nodes, Args(FALSE, 0, FALSE, UNINIT, "ok", UNINIT))
              IN  /\ ~w.fault /\ w.r = LDS_SUCCESS
                  /\ ~a.ptr_null => w.out = S[p + 1]
                  /\ w.ds.size = ds.size - 1
                  /\ ReadBack(w.ds, w.nodes) = RemoveAt(S, p)
                  /\ w.ds.position = p
                  /\ ~g.fault
                  /\ IF p + 1 < ds.size
                     THEN g.r = LDS_SUCCESS /\ g.out = S[p + 2]
                     ELSE w.ds.position = w.ds.size /\ g.r = LDS_POS_ERR

\* A list of three nodes with the cursor on the first one.
C15_Witness ==
    /\ ds.type = LDS_LINKED_LIST /\ ds.size = 3 /\ ds.position = 0
    /\ ds.current = ds.first /\ ds.previous = NULL /\ ds.first # ds.last

(* --------------------------- C16: cursor next ------------------------- *)

\* C16: in every state, cursor next returns LDS_SUCCESS and makes the
\* position one more exactly when position < size; otherwise it returns
\* LDS_POS_ERR and leaves the position; in both cases the size, the buffer
\* and the list nodes are as before.
C16_NextIffBelowSize ==
    ~fault =>
       \A a \in GetValid({0}) :
          LET w == lds_it_next(ds, nodes, a)
          IN  /\ ~w.fault
              /\ IF ds.position < ds.size
                 THEN w.r = LDS_SUCCESS /\ w.ds.position = ds.position + 1
                 ELSE w.r = LDS_POS_ERR /\ w.ds.position = ds.position
              /\ w.ds.size = ds.size /\ w.ds.vector = ds.vector
              /\ w.ds.head = ds.head /\ w.ds.tail = ds.tail
              /\ w.nodes = nodes

\* An empty buffer whose cursor a next has moved from position 1 to 2.
C16_Witness ==
    ~fault /\ ds.type = LDS_VECTOR /\ ds.size = 0 /\ ds.position = 2

(* ------------------------ C17: go beyond the size --------------------- *)

\* C17: go(target) with target > size returns LDS_POS_ERR and leaves the
\* cursor (position, current, previous) and everything else as it was; and a
\* go that returns LDS_SUCCESS never leaves the position beyond the size.
C17_GoBeyondSizeRefused ==
    \A a \in GetValid(Positions) :
       LET w == lds_it_go(ds, nodes, a)
       IN  /\ ~w.fault
           /\ a.position > ds.size =>
                 /\ w.r = LDS_POS_ERR
                 /\ w.ds.position = ds.position
                 /\ w.ds.current = ds.current /\ w.ds.previous = ds.previous
                 /\ Untouched(w)
           /\ w.r = LDS_SUCCESS => w.ds.position <= w.ds.size

\* A list of two nodes with the cursor on the second one: targets within and
\* beyond the size exist.
C17_Witness ==
    /\ ds.type = LDS_LINKED_LIST /\ ds.size = 2 /\ ds.position = 1
    /\ ds.current # NULL /\ ds.previous # NULL /\ ds.size < MaxCap

(* ----------------------------- C18: stack ----------------------------- *)

\* A container used only through push, pop and peek, as in int_stack.c.
NextStack ==
    \/ \E a \in InsertValid({0}) \cup NullHandle \cup NullPointer({0}) :
          LdsStackPush(a)
    \/ \E a \in RemoveValid({0}) \cup NullHandle : LdsStackPop(a)
    \/ \E a \in GetValid({0}) \cup NullHandle \cup NullPointer({0}) : LdsStackPeek(a)

SpecStack == Init /\ [][NextStack]_vars

\* while (!lds_empty(s)) lds_stack_pop(s, &e): the values popped, in order.
RECURSIVE PopAll(_, _)
PopAll(d, n) ==
    IF d.size = 0 THEN <<>>
    ELSE LET w == lds_stack_pop(d, n, Args(FALSE, 0, FALSE, UNINIT, "ok", UNINIT))
         IN  IF w.fault \/ w.r # LDS_SUCCESS THEN <<>>
             ELSE <<w.out>> \o PopAll(w.ds, w.nodes)

\* C18: in every state of a container used as a stack, with P the values
\* that popping until empty yields: P holds size values; a served push(v)
\* succeeds and makes that sequence v followed by P (the values come out in
\* reverse push order); peek yields the first value of P and changes
\* nothing of it; pop yields the first value of P and leaves the rest; on an
\* empty container pop and peek return LDS_POS_ERR and change nothing.
C18_StackIsLifo ==
    LET P == PopAll(ds, nodes)
    IN  /\ Len(P) = ds.size
        /\ \A i \in 1 .. Len(P) : P[i] \in Val
        /\ Room =>
              \A a \in InsertValid({0}) :
                 LET w == lds_stack_push(ds, nodes, a)
                 IN  /\ ~w.fault
                     /\ Served(a) => w.r = LDS_SUCCESS
                     /\ PopAll(w.ds, w.nodes) =
                           IF w.r = LDS_SUCCESS THEN <<a.value>> \o P ELSE P
        /\ \A a \in GetValid({0}) :
              LET w == lds_stack_peek(ds, nodes, a)
              IN  IF ds.size = 0
                  THEN w.r = LDS_POS_ERR /\ Untouched(w)
                  ELSE /\ ~w.fault /\ w.r = LDS_SUCCESS /\ w.out = P[1]
                       /\ PopAll(w.ds, w.nodes) = P
        /\ \A a \in RemoveValid({0}) :
              LET w == lds_stack_pop(ds, nodes, a)
              IN  IF ds.size = 0
                  THEN w.r = LDS_POS_ERR /\ Untouched(w)
                  ELSE /\ ~w.fault /\ w.r = LDS_SUCCESS
                       /\ ~a.ptr_null => w.out = P[1]
                       /\ PopAll(w.ds, w.nodes) = Tail(P)

\* A stack of three values, the last one pushed differing from the first.
C18_Witness ==
    /\ ds.size = 3 /\ PopAll(ds, nodes)[1] # PopAll(ds, nodes)[3]
    /\ ds.type = LDS_LINKED_LIST

(* ----------------------------- C19: queue ----------------------------- *)

\* A container used only through enqueue, dequeue and front, as in the queue
\* sample.
NextQueue ==
    \/ \E a \in InsertValid({0}) \cup NullHandle \cup NullPointer({0}) : LdsEnqueue(a)
    \/ \E a \in RemoveValid({0}) \cup NullHandle : LdsDequeue(a)
    \/ \E a \in GetValid({0}) \cup NullHandle \cup NullPointer({0}) : LdsQueueFront(a)

SpecQueue == Init /\ [][NextQueue]_vars

\* while (!lds_empty(q)) lds_dequeue(q, &e): the values dequeued, in order.
RECURSIVE DequeueAll(_, _)
DequeueAll(d, n) ==
    IF d.size = 0 THEN <<>>
    ELSE LET w == lds_dequeue(d, n, Args(FALSE, 0, FALSE, UNINIT, "ok", UNINIT))
         IN  IF w.fault \/ w.r # LDS_SUCCESS THEN <<>>
             ELSE <<w.out>> \o DequeueAll(w.ds, w.nodes)

\* C19: in every state of a container used as a queue, with Q the values
\* that dequeuing until empty yields: Q holds size values; a served
\* enqueue(v) succeeds and makes that sequence Q followed by v; front yields
\* the first value of Q and changes nothing of it; dequeue yields the first
\* value of Q and leaves the rest; on an empty container dequeue and front
\* return LDS_POS_ERR and change nothing.
C19_QueueIsFifo ==
    ~fault =>
       LET Q == DequeueAll(ds, nodes)
       IN  /\ Len(Q) = ds.size
           /\ \A i \in 1 .. Len(Q) : Q[i] \in Val
           /\ Room =>
                 \A a \in InsertValid({0}) :
                    LET w == lds_enqueue(ds, nodes, a)
                    IN  /\ ~w.fault
                        /\ Served(a) => w.r = LDS_SUCCESS
                        /\ DequeueAll(w.ds, w.nodes) =
                              IF w.r = LDS_SUCCESS THEN Q \o <<a.value>> ELSE Q
           /\ \A a \in GetValid({0}) :
                 LET w == lds_queue_front(ds, nodes, a)
                 IN  IF ds.size = 0
                     THEN w.r = LDS_POS_ERR /\ Untouched(w)
                     ELSE /\ ~w.fault /\ w.r = LDS_SUCCESS /\ w.out = Q[1]
                          /\ DequeueAll(w.ds, w.nodes) = Q
           /\ \A a \in RemoveValid({0}) :
                 LET w == lds_dequeue(ds, nodes, a)
                 IN  IF ds.size = 0
                     THEN w.r = LDS_POS_ERR /\ Untouched(w)
                     ELSE /\ ~w.fault /\ w.r = LDS_SUCCESS
                          /\ ~a.ptr_null => w.out = Q[1]
                          /\ DequeueAll(w.ds, w.nodes) = Tail(Q)

\* A ring buffer that has grown to its largest capacity and whose elements
\* wrap past its end, the oldest differing from the newest.
C19_Witness ==
    /\ ~fault /\ ds.type = LDS_VECTOR /\ ds.capacity = MaxCap
    /\ ds.head > ds.tail /\ ds.tail > 0 /\ ds.size >= 2
    /\ DequeueAll(ds, nodes)[1] # DequeueAll(ds, nodes)[ds.size]

(* ----------------------- C20: capacity of a list ---------------------- *)

C21_QueriesOnNull ==
    ~fault =>
       \A a \in NullHandle :
          /\ lds_size(ds, a) = Answer(0)
          /\ lds_data_size(ds, a) = Answer(0)
          /\ lds_capacity(ds, a) = Answer(0)

\* The run has ended in undefined behaviour on a list of one node whose
\* cursor was never moved: lds_capacity(NULL) is one of the calls that end so.
C21_Witness ==
    /\ fault /\ ds.type = LDS_LINKED_LIST /\ ds.size = 1 /\ ds.position = 0
    /\ \E a \in NullHandle : lds_capacity(ds, a).fault

(* ------------------------ C24: lds_data_size -------------------------- *)

\* C24: in every state lds_data_size returns 0 for a NULL container and for
\* a linked-list container, and the element size given at construction for
\* an array-backed one.
C24_DataSize ==
    ~fault =>
       /\ \A a \in NullHandle : lds_data_size(ds, a) = Answer(0)
       /\ \A a \in GetValid({0}) :
             lds_data_size(ds, a) =
                IF ds.type = LDS_LINKED_LIST THEN Answer(0) ELSE Answer(ElemSize)

\* A list holding two nodes, constructed with sizeof(int), for which the
\* query yields the element size.
C24_Witness ==
    /\ ~fault /\ ds.type = LDS_LINKED_LIST /\ ds.size = 2
    /\ \E a \in GetValid({0}) : lds_data_size(ds, a) = Answer(ElemSize)

(* ------------------- C22: the two strategies side by side ------------- *)

\* An array-backed structure in ds and a linked list in twin, both new.  No
\* direct call on a list reads its capacity field, so a single content of
\* that field is explored.
InitBoth ==
    /\ \E c \in InitCaps : ds = lds_new_vector(c, ElemSize)
    /\ nodes = [x \in Nodes |-> FreeNode]
    /\ twin = [ds |-> lds_new_list(ElemSize, 0),
               nodes |-> [x \in Nodes |-> FreeNode]]
    /\ fault = FALSE
    /\ net = 0

\* Both structures can take one more element within the bounds explored.
RoomBoth == Room /\ HasFreeNode(twin.nodes)

\* The effect of making the same call on both structures: v is its result on
\* the array-backed one, l its result on the list.
Both(v, l, kind) ==
    LET done == ~v.fault /\ v.r = LDS_SUCCESS
    IN  /\ ~fault
        /\ ds.size <= MaxCap
        /\ ds' = v.ds
        /\ nodes' = v.nodes
        /\ twin' = [ds |-> l.ds, nodes |-> l.nodes]
        /\ fault' = (v.fault \/ l.fault)
        /\ net' = CASE done /\ kind = "insert" -> net + 1
                    [] done /\ kind = "remove" -> net - 1
                    [] OTHER -> net

\* The positions inside the structure, the one at its end and the first one
\* beyond it.
Near == 0 .. ds.size + 1

\* Insertions whose allocations are all served.
ServedInsert(P) == {a \in InsertValid(P) : Served(a)}

BothInsert(a) ==
    RoomBoth /\ Both(lds_insert(ds, nodes, a),
                     lds_insert(twin.ds, twin.nodes, a), "insert")

BothInsertLast(a) ==
    RoomBoth /\ Both(lds_insert_last(ds, nodes, a),
                     lds_insert_last(twin.ds, twin.nodes, a), "insert")

BothRemove(a) ==
    Both(lds_remove(ds, nodes, a), lds_remove(twin.ds, twin.nodes, a), "remove")

BothGet(a) ==
    Both(lds_get(ds, nodes, a), lds_get(twin.ds, twin.nodes, a), "get")

BothSet(a) ==
    Both(lds_set(ds, nodes, a), lds_set(twin.ds, twin.nodes, a), "set")

NextBoth ==
    \/ \E a \in ServedInsert(Near) \cup NullHandle \cup NullPointer({0}) :
          BothInsert(a)
    \/ \E a \in ServedInsert({0}) \cup NullHandle \cup NullPointer({0}) :
          BothInsertLast(a)
    \/ \E a \in RemoveValid(Near) \cup NullHandle : BothRemove(a)
    \/ \E a \in GetValid(Near) \cup NullHandle \cup NullPointer({0}) :
          BothGet(a)
    \/ \E a \in SetValid(Near) \cup NullHandle \cup NullPointer({0}) :
          BothSet(a)

SpecBoth == InitBoth /\ [][NextBoth]_vars

\* The two results of one call agree in what the caller sees.
SameAnswer(v, l) == v.fault = l.fault /\ v.r = l.r /\ v.out = l.out

\* C22: in every state reached by making the same direct calls (insert,
\* insertLast, remove, get, set; any position, NULL arguments included;
\* allocations served) on an array-backed structure and on a linked list, the
\* two have the same size and the same read-back, and every next call returns
\* the same code and hands out the same value on both.
C22_StrategiesAgree ==
    ~fault =>
       /\ ds.size = twin.ds.size
       /\ ReadBack(ds, nodes) = ReadBack(twin.ds, twin.nodes)
       /\ RoomBoth =>
            /\ \A a \in ServedInsert(Near) \cup NullHandle
                          \cup NullPointer({0}) :
                  SameAnswer(lds_insert(ds, nodes, a),
                             lds_insert(twin.ds, twin.nodes, a))
            /\ \A a \in ServedInsert({0}) \cup NullHandle \cup NullPointer({0}) :
                  SameAnswer(lds_insert_last(ds, nodes, a),
                             lds_insert_last(twin.ds, twin.nodes, a))
       /\ \A a \in RemoveValid(Near) \cup NullHandle :
             SameAnswer(lds_remove(ds, nodes, a),
                        lds_remove(twin.ds, twin.nodes, a))
       /\ \A a \in GetValid(Near) \cup NullHandle \cup NullPointer({0}) :
             SameAnswer(lds_get(ds, nodes, a), lds_get(twin.ds, twin.nodes, a))
       /\ \A a \in SetValid(Near) \cup NullHandle \cup NullPointer({0}) :
             SameAnswer(lds_set(ds, nodes, a), lds_set(twin.ds, twin.nodes, a))

\* A grown buffer whose elements wrap past its end beside a list of three
\* nodes whose cursor stands at the last one.
C22_Witness ==
    /\ ~fault /\ ds.type = LDS_VECTOR /\ twin.ds.type = LDS_LINKED_LIST
    /\ ds.capacity = 4 /\ ds.size = 3 /\ ds.head > ds.tail
    /\ twin.ds.position = 2
    /\ ReadBack(twin.ds, twin.nodes) = <<1, 2, 1>>

(* -------------------------- C23: traversal ---------------------------- *)

\* The direct and the iterator operations together with lds_it_reset.
NextTraverse ==
    \/ NextDirect
    \/ NextCursor
    \/ \E a \in GetValid({0}) \cup NullHandle : LdsItReset(a)

SpecTraverse == Init /\ [][NextTraverse]_vars

\* The outcome of a traversal: the values handed out, the structure it
\* leaves, whether it ran into undefined behaviour, and whether the loop
\* condition became false.
Walked(got, d, n, f, e) ==
    [gets |-> got, ds |-> d, nodes |-> n, fault |-> f, ended |-> e]

\* for (...; lds_it_get(it, &element) == LDS_SUCCESS; lds_it_next(it)),
\* followed for at most MaxCap + 2 calls of lds_it_get.
RECURSIVE TraverseLoop(_, _, _)
TraverseLoop(d, n, got) ==
    IF Len(got) > MaxCap + 1 THEN Walked(got, d, n, FALSE, FALSE)
    ELSE LET g == lds_it_get(d, n, Args(FALSE, 0, FALSE, UNINIT, "ok", UNINIT))
         IN  IF g.fault THEN Walked(got, g.ds, g.nodes, TRUE, FALSE)
             ELSE IF g.r # LDS_SUCCESS THEN Walked(got, g.ds, g.nodes, FALSE, TRUE)
             ELSE LET x == lds_it_next(g.ds, g.nodes,
                                       Args(FALSE, 0, FALSE, UNINIT, "ok", UNINIT))
                  IN  IF x.fault
                      THEN Walked(Append(got, g.out), x.ds, x.nodes, TRUE, FALSE)
                      ELSE TraverseLoop(x.ds, x.nodes, Append(got, g.out))

\* The loop of the iterator example, lds_it_reset included.
Traverse(d, n) ==
    LET w == lds_it_reset(d, n, Args(FALSE, 0, FALSE, UNINIT, "ok", UNINIT))
    IN  TraverseLoop(w.ds, w.nodes, <<>>)

\* C23: in every state of a container of either strategy, wherever its
\* cursor stands, the loop 'reset; while get succeeds: next' ends without
\* undefined behaviour after exactly size successful gets, which hand out
\* the elements of positions 0, 1, ..., size - 1 in that order; it changes
\* neither the size nor the contents and leaves the cursor at position size
\* (for a list: current none, previous the last node).
C23_Traversal ==
    (~fault /\ ds.size <= MaxCap) =>
       LET t == Traverse(ds, nodes)
       IN  /\ ~t.fault /\ t.ended
           /\ Len(t.gets) = ds.size
           /\ t.gets = ReadBack(ds, nodes)
           /\ t.ds.size = ds.size
           /\ ReadBack(t.ds, t.nodes) = ReadBack(ds, nodes)
           /\ t.ds.position = ds.size
           /\ ds.type = LDS_LINKED_LIST =>
                 t.ds.current = NULL /\ t.ds.previous = ds.last

\* A list of three nodes holding different values whose cursor stands in the
\* middle: the traversal starts over from the first node.
C23_Witness ==
    /\ ~fault /\ ds.type = LDS_LINKED_LIST /\ ds.size = 3 /\ ds.position = 2
    /\ Traverse(ds, nodes).gets = <<2, 1, 2>>

(* ------------------- C25: shape of the circular buffer ---------------- *)

\* C25: in every state of an array-backed container whose capacity is not 0,
\* head and tail are slots of the buffer, size does not exceed capacity,
\* tail = (head + size) mod capacity, and head = tail exactly when the
\* buffer is empty or full.
C25_RingShape ==
    (~fault /\ ds.type = LDS_VECTOR /\ ds.capacity > 0) =>
       /\ 0 <= ds.head /\ ds.head < ds.capacity
       /\ 0 <= ds.tail /\ ds.tail < ds.capacity
       /\ ds.size <= ds.capacity
       /\ ds.tail = (ds.head + ds.size) % ds.capacity
       /\ (ds.head = ds.tail) <=> (ds.size = 0 \/ ds.size = ds.capacity)

\* An empty buffer of three slots after lds_remove_last: the size has wrapped
\* below 0 and the tail has retreated to the last slot.
C25_Witness ==
    /\ ~fault /\ ds.type = LDS_VECTOR /\ ds.capacity = 3
    /\ ds.size = SIZE_MOD - 1 /\ ds.head = 0 /\ ds.tail = 2

(* ------------------------ C26: capacity changes ----------------------- *)

\* C26: a call changes the capacity of an array-backed container only if it
\* is an insertion (the size grows by one) made on a full buffer, and the new
\* capacity is then twice the old one, or 1 if the old one was 0; every
\* other call (remove, set, get, cursor movement, a refused or failed
\* insertion) leaves the capacity as it is, so it never decreases.
C26_CapacityOnlyGrows ==
    [][(ds.type = LDS_VECTOR /\ ds'.capacity # ds.capacity) =>
          /\ ds.size = ds.capacity
          /\ ds'.size = ds.size + 1
          /\ ds'.capacity = IF ds.capacity = 0 THEN 1 ELSE 2 * ds.capacity
          /\ ds'.capacity > ds.capacity]_vars

\* A buffer constructed with capacity 0 that has grown three times.
C26_Witness ==
    /\ ~fault /\ ds.type = LDS_VECTOR /\ ds.capacity = 4 /\ ds.size = 3
    /\ ds.head > ds.tail

(* ---------------- C27: head and tail after an insertion --------------- *)

\* What an insertion at pos into a buffer with a spare slot does to head and
\* tail, from d to e: with pos = size the tail advances by one modulo the
\* capacity and the head stays; with pos = 0 < size the head retreats by one
\* modulo the capacity and the tail stays; with 0 < pos < size the tail
\* advances and the head stays.
InsertMoves(d, e, pos) ==
    IF pos = 0 /\ 0 < d.size
    THEN e.head = (d.head - 1 + d.capacity) % d.capacity /\ e.tail = d.tail
    ELSE e.tail = (d.tail + 1) % d.capacity /\ e.head = d.head

\* The slot of an interior position lies at or beyond the tail: the elements
\* wrap past the end of the buffer between that position and the last one.
Wrapped(d, pos) == 0 < pos /\ pos < d.size /\ d.tail <= Index(d, pos)

\* C27: in every state of an array-backed container with size < capacity, an
\* insertion at a position pos <= size, through lds_insert or through the
\* cursor standing at pos, succeeds without growing the buffer and moves
\* head and tail as InsertMoves says, whether or not the elements wrap.
C27_InsertMovesOneEnd ==
    (~fault /\ ds.type = LDS_VECTOR /\ ds.size < ds.capacity) =>
       /\ \A a \in InsertValid(0 .. ds.size) :
             LET w == lds_insert(ds, nodes, a)
             IN  /\ ~w.fault /\ w.r = LDS_SUCCESS
                 /\ w.ds.capacity = ds.capacity
                 /\ InsertMoves(ds, w.ds, a.position)
       /\ ds.position <= ds.size =>
             \A a \in InsertValid({0}) :
                LET w == lds_it_add(ds, nodes, a)
                IN  /\ ~w.fault /\ w.r = LDS_SUCCESS
                    /\ w.ds.capacity = ds.capacity
                    /\ InsertMoves(ds, w.ds, ds.position)

\* A buffer with a spare slot whose elements wrap, the cursor at an interior
\* position whose slot lies beyond the tail.
C27_Witness ==
    /\ ~fault /\ ds.type = LDS_VECTOR /\ ds.capacity = 4 /\ ds.size = 3
    /\ Wrapped(ds, ds.position)
    /\ \E p \in 1 .. ds.size - 1 : ~Wrapped(ds, p)

(* ----------------- C28: head and tail after a removal ----------------- *)

\* What the removal of position pos < size does to head and tail, from d to
\* e: the last position, and an interior one whose slot lies before the tail,
\* retreat the tail by one modulo the capacity and keep the head; the first
\* position of two or more, and an interior one whose slot lies at or beyond
\* the tail, advance the head by one modulo the capacity and keep the tail.
RemoveMoves(d, e, pos) ==
    IF pos = d.size - 1 \/ (pos # 0 /\ d.tail > Index(d, pos))
    THEN e.tail = (d.tail - 1 + d.capacity) % d.capacity /\ e.head = d.head
    ELSE e.head = (d.head + 1) % d.capacity /\ e.tail = d.tail

\* Exactly one of head and tail has another value in e than in d (in a
\* buffer of one slot, one slot further is the same slot).
OneEndMoved(d, e) ==
    d.capacity > 1 => ((e.head # d.head) # (e.tail # d.tail))

\* C28: in every state of a non-empty array-backed container, a removal at a
\* position pos < size, through lds_remove or through the cursor standing at
\* pos, succeeds and moves head and tail as RemoveMoves says; exactly one of
\* the two moves, by one slot.
C28_RemoveMovesOneEnd ==
    (~fault /\ ds.type = LDS_VECTOR /\ 0 < ds.size /\ ds.size <= ds.capacity) =>
       /\ \A a \in RemoveValid(0 .. ds.size - 1) :
             LET w == lds_remove(ds, nodes, a)
             IN  /\ ~w.fault /\ w.r = LDS_SUCCESS
                 /\ RemoveMoves(ds, w.ds, a.position)
                 /\ OneEndMoved(ds, w.ds)
       /\ ds.position < ds.size =>
             \A a \in RemoveValid({ds.position}) :
                LET w == lds_it_remove(ds, nodes, a)
                IN  /\ ~w.fault /\ w.r = LDS_SUCCESS
                    /\ RemoveMoves(ds, w.ds, ds.position)
                    /\ OneEndMoved(ds, w.ds)

\* A full buffer of four slots whose elements wrap, the cursor at an interior
\* position whose slot lies beyond the tail, another interior position lying
\* before it.
C28_Witness ==
    /\ ~fault /\ ds.type = LDS_VECTOR /\ ds.capacity = 4 /\ ds.size = 4
    /\ Wrapped(ds, ds.position)
    /\ \E p \in 1 .. ds.size - 2 : ~Wrapped(ds, p)

(* -------------------- C29: the list cursor's nodes -------------------- *)

\* The node reached from p by following next k times; NULL once the chain
\* has ended or has run into a released node.
RECURSIVE Walk(_, _, _)
Walk(n, p, k) ==
    IF k = 0 \/ p = NULL THEN p
    ELSE IF ~n[p].alloc THEN NULL
    ELSE Walk(n, n[p].next, k - 1)

\* C29: in every state of a linked-list container, whatever calls (direct or
\* through the cursor, successful, refused or failed) led to it, the
\* cursor's current is the node position steps from first, which is none
\* when position = size, and its previous is the node position - 1 steps
\* from first, none when position = 0.
C29_ListCursorMatchesPosition ==
    (~fault /\ ds.type = LDS_LINKED_LIST) =>
       /\ ds.position <= ds.size
       /\ ds.current = Walk(nodes, ds.first, ds.position)
       /\ ds.position = ds.size => ds.current = NULL
       /\ ds.position < ds.size => Live(nodes, ds.current)
       /\ ds.previous = IF ds.position = 0 THEN NULL
                        ELSE Walk(nodes, ds.first, ds.position - 1)
       /\ ds.position > 0 => Live(nodes, ds.previous)

\* A list of three nodes, not in address order, with the cursor at the last.
C29_Witness ==
    /\ ~fault /\ ds.type = LDS_LINKED_LIST /\ ds.size = 3 /\ ds.position = 2
    /\ ds.first # 1 /\ ds.current = ds.last /\ ds.previous # ds.first

(* ------------------------ C30: the list's chain ----------------------- *)

\* The nodes at the positions 0 .. k - 1 of the chain from first.
Chain(n, first, k) == [i \in 1 .. k |-> Walk(n, first, i - 1)]

\* C30: in every state of a linked-list container the chain from first has
\* exactly size nodes, all different and all allocated, and ends there
\* (size steps from first reach none); last is the node of position
\* size - 1; first and last are none exactly when size = 0.
C30_ListChain ==
    (~fault /\ ds.type = LDS_LINKED_LIST) =>
       LET c == Chain(nodes, ds.first, ds.size)
       IN  /\ ds.size <= MaxNodes
           /\ \A i \in 1 .. ds.size : Live(nodes, c[i])
           /\ \A i, j \in 1 .. ds.size : c[i] = c[j] => i = j
           /\ Walk(nodes, ds.first, ds.size) = NULL
           /\ ds.size > 0 => ds.last = c[ds.size]
           /\ (ds.first = NULL) <=> (ds.size = 0)
           /\ (ds.last = NULL) <=> (ds.size = 0)

\* A list that has shrunk from three nodes to the one allocated last.
C30_Witness ==
    /\ ~fault /\ ds.type = LDS_LINKED_LIST /\ ds.size = 1 /\ ds.first = 3
    /\ ds.last = 3 /\ ~nodes[1].alloc /\ ~nodes[2].alloc

(* ------------- C31: failed direct insert into a list ------------------ *)

\* The cursor of d is the cursor of e: position, current and previous.
SameCursor(d, e) ==
    e.position = d.position /\ e.current = d.current /\ e.previous = d.previous

\* C31: in every state of a linked-list container, a direct insert at a
\* position pos <= size that returns LDS_FAIL because the allocation failed
\* leaves the cursor's position, current and previous as they were.
C31_FailedListInsertKeepsCursor ==
    (~fault /\ ds.type = LDS_LINKED_LIST) =>
       \A a \in InsertValid(0 .. ds.size) :
          LET w == lds_insert(ds, nodes, a)
          IN  (~Served(a) /\ ~w.fault /\ w.r = LDS_FAIL) => SameCursor(ds, w.ds)

\* A list of two nodes with the cursor at the first: a direct insert at the
\* end whose allocation fails returns LDS_FAIL with the cursor at the end.
C31_Witness ==
    /\ ~fault /\ ds.type = LDS_LINKED_LIST /\ ds.size = 2 /\ ds.position = 0
    /\ \E a \in InsertValid({2}) :
          LET w == lds_insert(ds, nodes, a)
          IN  /\ ~Served(a) /\ ~w.fault /\ w.r = LDS_FAIL
              /\ w.ds.position = 2 /\ w.ds.current = NULL
              /\ w.ds.previous = ds.last

(* ----------- C32: NULL test before the position test ------------------ *)

\* The positions insert refuses, and those get and set refuse.
BeyondInsert == {p \in Positions : p > ds.size}
BeyondAccess == {p \in Positions : p >= ds.size}

\* C32: in every state, lds_insert, lds_get and lds_set called with a NULL
\* value / element pointer return LDS_NULL whatever the position, an
\* out-of-range one included, and change nothing; called with a container
\* and valid pointers and an out-of-range position they return LDS_POS_ERR
\* and change nothing.
C32_NullBeforePosition ==
    ~fault =>
       /\ \A a \in NullPointer(Positions) :
             /\ lds_insert(ds, nodes, a).r = LDS_NULL
             /\ lds_get(ds, nodes, a).r = LDS_NULL
             /\ lds_set(ds, nodes, a).r = LDS_NULL
             /\ Untouched(lds_insert(ds, nodes, a))
             /\ Untouched(lds_get(ds, nodes, a))
             /\ Untouched(lds_set(ds, nodes, a))
       /\ \A a \in InsertValid(BeyondInsert) :
             lds_insert(ds, nodes, a).r = LDS_POS_ERR
                /\ Untouched(lds_insert(ds, nodes, a))
       /\ \A a \in GetValid(BeyondAccess) :
             lds_get(ds, nodes, a).r = LDS_POS_ERR
                /\ Untouched(lds_get(ds, nodes, a))
       /\ \A a \in SetValid(BeyondAccess) :
             lds_set(ds, nodes, a).r = LDS_POS_ERR
                /\ Untouched(lds_set(ds, nodes, a))

\* A structure of two elements: position 3 is out of range for the three
\* calls, and with a NULL pointer each of them answers LDS_NULL.
C32_Witness ==
    /\ ~fault /\ ds.size = 2
    /\ \A a \in NullPointer({3}) :
          /\ lds_insert(ds, nodes, a).r = LDS_NULL
          /\ lds_get(ds, nodes, a).r = LDS_NULL
          /\ lds_set(ds, nodes, a).r = LDS_NULL
    /\ \A a \in SetValid({3}) : lds_set(ds, nodes, a).r = LDS_POS_ERR

(* ----------------------- C33: effect of a set ------------------------- *)

\* The next links and the allocation of every node are in m what they are
\* in n.
SameLinks(n, m) ==
    \A x \in Nodes : m[x].alloc = n[x].alloc /\ m[x].next = n[x].next

\* C33: in every state, a lds_set(pos, v) that returns LDS_SUCCESS makes the
\* element of position pos v and leaves every other element as it is; size,
\* capacity, head, tail and every slot of the buffer but the one of pos, and
\* first, last and the links of the list, are unchanged; lds_get(pos) then
\* hands out v.
C33_SetChangesOneElement ==
    LET S == ReadBack(ds, nodes)
    IN  ~fault =>
          \A a \in SetValid(0 .. ds.size - 1) :
             LET w == lds_set(ds, nodes, a)
                 g == lds_get(w.ds, w.nodes, [a EXCEPT !.u = UNINIT])
             IN  (~w.fault /\ w.r = LDS_SUCCESS) =>
                    /\ S[a.position + 1] # a.value
                    /\ ReadBack(w.ds, w.nodes) = SetAt(S, a.position, a.value)
                    /\ w.ds.size = ds.size /\ w.ds.capacity = ds.capacity
                    /\ w.ds.head = ds.head /\ w.ds.tail = ds.tail
                    /\ w.ds.first = ds.first /\ w.ds.last = ds.last
                    /\ SameLinks(nodes, w.nodes)
                    /\ ds.type = LDS_VECTOR =>
                          w.ds.vector =
                             [ds.vector EXCEPT ![Index(ds, a.position)] = a.value]
                    /\ ~g.fault /\ g.r = LDS_SUCCESS /\ g.out = a.value

\* A wrapped buffer of three elements, the middle one different from its
\* neighbours, which a set can change.
C33_Witness ==
    /\ ~fault /\ ds.type = LDS_VECTOR /\ ds.size = 3 /\ ds.head > ds.tail
    /\ ReadBack(ds, nodes) = <<1, 2, 1>>
    /\ \E a \in SetValid({1}) : lds_set(ds, nodes, a).r = LDS_SUCCESS

(* --------------------------- C34: hasNext ----------------------------- *)

\* The iterator operations with lds_it_has_next and lds_it_reset, as a loop
\* over the structure that adds and removes on its way uses them.
NextScan ==
    \/ NextCursor
    \/ \E a \in GetValid({0}) \cup NullHandle : LdsItHasNext(a)
    \/ \E a \in GetValid({0}) \cup NullHandle : LdsItReset(a)

SpecScan == Init /\ [][NextScan]_vars

\* C34: in every state lds_it_has_next returns LDS_SUCCESS if the cursor's
\* position is less than the size and LDS_FAIL if not (so LDS_SUCCESS on the
\* last element, LDS_FAIL past it and on an empty structure), and changes
\* neither the cursor nor the structure.
C34_HasNext ==
    ~fault =>
       \A a \in GetValid({0}) :
          LET w == lds_it_has_next(ds, nodes, a)
          IN  /\ w.r = IF ds.position < ds.size THEN LDS_SUCCESS ELSE LDS_FAIL
              /\ ds.size = 0 => w.r = LDS_FAIL
              /\ Untouched(w)

\* The cursor on the last of two elements, where the answer is LDS_SUCCESS
\* and one lds_it_next further LDS_FAIL.
C34_Witness ==
    /\ ~fault /\ ds.size = 2 /\ ds.position = 1
    /\ \E a \in GetValid({0}) :
          LET w == lds_it_has_next(ds, nodes, a)
              x == lds_it_next(ds, nodes, a)
          IN  /\ w.r = LDS_SUCCESS
              /\ lds_it_has_next(x.ds, x.nodes, a).r = LDS_FAIL

(* ------------------------ C35: go on a list --------------------------- *)

\* C35: in every state of a linked-list container, lds_it_go to a target
\* <= size ends with LDS_SUCCESS and the cursor at the target, having
\* followed no NULL or released link; for a target at or after the cursor it
\* makes target - position advances and no reset, for a target before the
\* cursor one reset and target advances.
C35_ListGoSteps ==
    (~fault /\ ds.type = LDS_LINKED_LIST) =>
       \A a \in GetValid(0 .. ds.size) :
          LET w == lds_it_go(ds, nodes, a)
              c == it_go_in_list_counted(ds, nodes, a.position)
          IN  /\ ~w.fault /\ w.r = LDS_SUCCESS
              /\ w.ds.position = a.position
              /\ ~c.fault /\ c.ds = w.ds
              /\ IF a.position >= ds.position
                 THEN c.resets = 0 /\ c.advances = a.position - ds.position
                 ELSE c.resets = 1 /\ c.advances = a.position

\* A list of three nodes with the cursor on the second: targets before and
\* after the cursor exist.
C35_Witness ==
    /\ ~fault /\ ds.type = LDS_LINKED_LIST /\ ds.size = 3 /\ ds.position = 1
    /\ it_go_in_list_counted(ds, nodes, 3).advances = 2
    /\ it_go_in_list_counted(ds, nodes, 0).resets = 1

(* ------------- C36: the vector's cursor and direct calls -------------- *)

\* The direct operations, the stack and queue operations built on them, and
\* the three operations that move the cursor.
NextPlace ==
    \/ NextDirect
    \/ \E a \in InsertValid({0}) \cup NullHandle \cup NullPointer({0}) :
          LdsInsertLast(a)
    \/ \E a \in RemoveValid({Dec(ds.size)}) \cup NullHandle : LdsRemoveLast(a)
    \/ \E a \in InsertValid({0}) \cup NullHandle \cup NullPointer({0}) :
          LdsStackPush(a)
    \/ \E a \in RemoveValid({0}) \cup NullHandle : LdsStackPop(a)
    \/ \E a \in InsertValid({0}) \cup NullHandle \cup NullPointer({0}) : LdsEnqueue(a)
    \/ \E a \in RemoveValid({0}) \cup NullHandle : LdsDequeue(a)
    \/ \E a \in GetValid({0}) \cup NullHandle : LdsItNext(a)
    \/ \E a \in GetValid(Positions) \cup NullHandle : LdsItGo(a)
    \/ \E a \in GetValid({0}) \cup NullHandle : LdsItReset(a)

SpecPlace == Init /\ [][NextPlace]_vars

\* The call with result w has not changed the cursor's position, or has run
\* into undefined behaviour.
KeepsPosition(w) == w.fault \/ w.ds.position = ds.position

\* C36: in every state of an array-backed container, wherever the cursor
\* stands, none of insert, insertLast, remove, removeLast, get, set, push,
\* pop, enqueue and dequeue changes the cursor's position, whatever their
\* arguments and result; nor do the cursor's add, get, set, remove and
\* hasNext: the position changes in next, go and reset only.
C36_VectorCursorStays ==
    (~fault /\ ds.type = LDS_VECTOR /\ ds.size <= MaxCap) =>
       /\ Room =>
            /\ \A a \in InsertValid(Positions) :
                  KeepsPosition(lds_insert(ds, nodes, a))
            /\ \A a \in InsertValid({0}) :
                  /\ KeepsPosition(lds_insert_last(ds, nodes, a))
                  /\ KeepsPosition(lds_stack_push(ds, nodes, a))
                  /\ KeepsPosition(lds_enqueue(ds, nodes, a))
                  /\ KeepsPosition(lds_it_add(ds, nodes, a))
       /\ \A a \in RemoveValid(Positions) : KeepsPosition(lds_remove(ds, nodes, a))
       /\ \A a \in RemoveValid({Dec(ds.size)}) :
             KeepsPosition(lds_remove_last(ds, nodes, a))
       /\ \A a \in RemoveValid({0}) :
             /\ KeepsPosition(lds_stack_pop(ds, nodes, a))
             /\ KeepsPosition(lds_dequeue(ds, nodes, a))
       /\ \A a \in GetValid(Positions) : KeepsPosition(lds_get(ds, nodes, a))
       /\ \A a \in SetValid(Positions) : KeepsPosition(lds_set(ds, nodes, a))
       /\ \A a \in GetValid({ds.position}) :
             /\ KeepsPosition(lds_it_get(ds, nodes, a))
             /\ KeepsPosition(lds_it_has_next(ds, nodes, a))
       /\ \A a \in SetValid({ds.position}) : KeepsPosition(lds_it_set(ds, nodes, a))
       /\ \A a \in RemoveValid({ds.position}) :
             KeepsPosition(lds_it_remove(ds, nodes, a))

\* A buffer of three elements with the cursor on the last one: a direct
\* removal succeeds and leaves the position, now the size, where it is.
C36_Witness ==
    /\ ~fault /\ ds.type = LDS_VECTOR /\ ds.size = 3 /\ ds.position = 2
    /\ \A a \in RemoveValid({0}) :
          LET w == lds_remove(ds, nodes, a)
          IN  ~w.fault /\ w.r = LDS_SUCCESS /\ w.ds.position = 2 /\ w.ds.size = 2

(* -------------- C37: the list's cursor and direct calls --------------- *)

\* The call with result w has ended, without undefined behaviour, with the
\* cursor at position p.
LeavesCursorAt(w, p) == ~w.fault /\ w.ds.position = p

\* C37: in every state of a linked-list container, wherever the cursor
\* stands, a direct insert at p <= size and a direct remove, get or set at
\* p < size leave the cursor's position equal to p, whether the call
\* succeeds or returns LDS_FAIL; the cursor's get after a direct get at p
\* hands out the element of p.
C37_ListCursorFollowsDirect ==
    (~fault /\ ds.type = LDS_LINKED_LIST) =>
       /\ Room =>
            \A a \in InsertValid(0 .. ds.size) :
               LeavesCursorAt(lds_insert(ds, nodes, a), a.position)
       /\ \A a \in RemoveValid(0 .. ds.size - 1) :
             LeavesCursorAt(lds_remove(ds, nodes, a), a.position)
       /\ \A a \in SetValid(0 .. ds.size - 1) :
             LeavesCursorAt(lds_set(ds, nodes, a), a.position)
       /\ \A a \in GetValid(0 .. ds.size - 1) :
             LET w == lds_get(ds, nodes, a)
                 g == lds_it_get(w.ds, w.nodes, a)
             IN  /\ LeavesCursorAt(w, a.position)
                 /\ w.r = LDS_SUCCESS
                 /\ ~g.fault /\ g.r = LDS_SUCCESS /\ g.out = w.out

\* A list of three nodes, the first different from the last, with the cursor
\* past the end: a direct get of the first element takes the cursor there.
C37_Witness ==
    /\ ~fault /\ ds.type = LDS_LINKED_LIST /\ ds.size = 3 /\ ds.position = 3
    /\ nodes[ds.first].data # nodes[ds.last].data
    /\ \A a \in GetValid({0}) : lds_get(ds, nodes, a).ds.current = ds.first

(* ---------------- C38: accesses stay inside the buffer ---------------- *)

\* C38: in every state of an array-backed container reached through the
\* public interface, every call made with a container (insert, remove,
\* removeLast, get, set, and the cursor's add, get, set and remove) computes
\* its slots with a capacity that is not 0 and reads and writes slots of the
\* buffer only, growth included; and the moves of a cursor add or remove at
\* a position of the structure leave every other element with its value.
C38_AccessesInsideBuffer ==
    (~fault /\ ds.type = LDS_VECTOR /\ ds.size <= MaxCap) =>
       LET S == ReadBack(ds, nodes)
           p == ds.position
       IN  /\ Room =>
                /\ \A a \in InsertValid(Positions) : ~lds_insert(ds, nodes, a).fault
                /\ \A a \in InsertValid({0}) :
                      LET w == lds_it_add(ds, nodes, a)
                      IN  /\ ~w.fault
                          /\ (w.r = LDS_SUCCESS /\ p <= ds.size) =>
                                ReadBack(w.ds, w.nodes) = InsertAt(S, p, a.value)
           /\ \A a \in RemoveValid(Positions) : ~lds_remove(ds, nodes, a).fault
           /\ \A a \in GetValid(Positions) : ~lds_get(ds, nodes, a).fault
           /\ \A a \in SetValid(Positions) : ~lds_set(ds, nodes, a).fault
           /\ \A a \in GetValid({p}) : ~lds_it_get(ds, nodes, a).fault
           /\ \A a \in SetValid({p}) : ~lds_it_set(ds, nodes, a).fault
           /\ \A a \in RemoveValid({p}) :
                 LET w == lds_it_remove(ds, nodes, a)
                 IN  /\ ~w.fault
                     /\ (w.r = LDS_SUCCESS /\ p < ds.size) =>
                           ReadBack(w.ds, w.nodes) = RemoveAt(S, p)
           /\ \A a \in RemoveValid({Dec(ds.size)}) :
                 ~lds_remove_last(ds, nodes, a).fault

\* An empty buffer of one slot whose cursor a direct remove has left at
\* position 1: the cursor's remove moves one element to slot 1.
C38_Witness ==
    /\ ~fault /\ ds.type = LDS_VECTOR /\ ds.capacity = 1 /\ ds.size = 0
    /\ ds.position = 1
    /\ take_out_of_buffer(ds, ds.position)
    /\ \A a \in RemoveValid({ds.position}) : lds_it_remove(ds, nodes, a).fault

(* ------------------- C39: the list's nodes and the heap --------------- *)

\* The nodes met by following next from p, for at most k links.
RECURSIVE Reach(_, _, _)
Reach(n, p, k) ==
    IF p = NULL \/ k = 0 THEN {}
    ELSE {p} \cup (IF n[p].alloc THEN Reach(n, n[p].next, k - 1) ELSE {})

\* The handle p is NULL or refers to an allocated node.
Sound(n, p) == p = NULL \/ n[p].alloc

\* C39: in every state of a linked-list container the allocated nodes are
\* the nodes reachable from first (none is lost, none that was released is
\* still linked), and first, last and the cursor's current and previous
\* refer to no released node.
C39_ListNodesAccounted ==
    (~fault /\ ds.type = LDS_LINKED_LIST) =>
       /\ {x \in Nodes : nodes[x].alloc} = Reach(nodes, ds.first, MaxNodes + 1)
       /\ Cardinality({x \in Nodes : nodes[x].alloc}) = ds.size
       /\ Sound(nodes, ds.first) /\ Sound(nodes, ds.last)
       /\ Sound(nodes, ds.current) /\ Sound(nodes, ds.previous)

\* A list of two nodes after a removal: the lowest address is free again,
\* and the cursor stands on the last node.
C39_Witness ==
    /\ ~fault /\ ds.type = LDS_LINKED_LIST /\ ds.size = 2
    /\ ~nodes[1].alloc /\ ds.current = ds.last /\ ds.previous = ds.first

====
